---- MODULE Spec2Model ----
(***************************************************************************)
(* Clio content script (extension/src/content.js, second copy in the file, *)
(* lines 663-1509) and its selector registry (extension/src/selectors.js). *)
(*                                                                         *)
(* The page is single threaded: a piece of code between two suspension     *)
(* points (await on a timer or on a network read) runs to completion, so   *)
(* every action below is one such piece.  The host page and other calls    *)
(* act only while a call is suspended.                                     *)
(***************************************************************************)
EXTENDS Integers, Sequences, FiniteSets, TLC

(***************************************************************************)
(* Bounds of the model.                                                    *)
(***************************************************************************)
MaxElems == 2          \* longest document a run starts from
MaxMsgs == 1           \* most message elements the host keeps rendered while scrolling
MaxScrollUnits == 1    \* largest scroll offset, in units of scrollStep
NumCalls == 2          \* calls that may overlap in one run

(***************************************************************************)
(* SCROLL_CONFIG and the batch sizes.                                      *)
(***************************************************************************)
scrollStep == 500
stabilityChecks == 3
maxScrollAttempts == 1000
progressUpdateInterval == 10
TURN_BATCH_SIZE == 20
BATCH_SIZE == 10

\* the observing loader: iteration ceiling, quiet rounds before completion,
\* and polls of the loading indicator before the wait ceiling
maxObservedAttempts == 2
quietRoundsNeeded == 2
MaxLoadingPolls == 1

Calls == 1..NumCalls

Min(a, b) == IF a < b THEN a ELSE b
Max(a, b) == IF a > b THEN a ELSE b

(***************************************************************************)
(* Documents.  An image locator is the src of an <img>: an inline data:    *)
(* URL (well formed, not matching the data URL pattern, or matching it     *)
(* with a payload atob rejects), a blob: or https: URL, or the empty       *)
(* string of an <img> without src.                                         *)
(***************************************************************************)
DataGood == [scheme |-> "data", form |-> "good"]
DataMalformed == [scheme |-> "data", form |-> "malformed"]
DataUndecodable == [scheme |-> "data", form |-> "undecodable"]
BlobUrl == [scheme |-> "blob", form |-> "url"]
HttpsUrl == [scheme |-> "https", form |-> "url"]
NoSrc == [scheme |-> "none", form |-> "empty"]

Locators == {DataGood, DataMalformed, DataUndecodable, BlobUrl, HttpsUrl, NoSrc}

(***************************************************************************)
(* A message-like element: its tag/attribute kind, the text tokens of its  *)
(* body, the text of each reasoning section it holds, and its images, all  *)
(* in document order.                                                      *)
(*   roleUser      [data-message-author-role="user"]                       *)
(*   roleModel     [data-message-author-role="model"]                      *)
(*   roleOther     [data-message-author-role] with another value           *)
(*   userQuery     <user-query>                                            *)
(*   modelResponse <model-response>                                        *)
(*   convContainer .conversation-container holding a <user-query> (the     *)
(*                 first text token) and a <model-response> (the rest)     *)
(*   convContainerUser   .conversation-container holding a <user-query>    *)
(*                       and no <model-response>                           *)
(*   convContainerModel  .conversation-container holding a                 *)
(*                       <model-response> and no <user-query>              *)
(*   convTurn      .conversation-turn                                      *)
(*   userQueryContainer   .user-query-container                            *)
(*   responseContainer    .response-container                              *)
(*   bothContainers       class="user-query-container response-container"  *)
(***************************************************************************)
ElemKinds ==
  {"roleUser", "roleModel", "roleOther", "userQuery", "modelResponse",
   "convContainer", "convContainerUser", "convContainerModel", "convTurn",
   "userQueryContainer", "responseContainer", "bothContainers"}

\* class="conversation-container"
ContainerKinds == {"convContainer", "convContainerUser", "convContainerModel"}

Elem(k, txt, th, im) == [kind |-> k, text |-> txt, thoughts |-> th, imgs |-> im]

\* SELECTORS.userMessage
MatchesUserMessage(e) ==
  e.kind \in {"userQuery", "roleUser", "userQueryContainer", "bothContainers"}

\* SELECTORS.assistantMessage
MatchesAssistantMessage(e) ==
  e.kind \in {"modelResponse", "roleModel", "responseContainer", "bothContainers"}

\* SELECTORS.allMessages
MatchesAllMessages(e) ==
  e.kind \in ContainerKinds \cup {"roleUser", "roleModel", "roleOther", "convTurn"}

\* SELECTORS.conversationContainer, for an element of the document
MatchesConversationContainer(e) == e.kind \in ContainerKinds

\* document.querySelectorAll(SELECTORS.x) over the message list, in document order
QueryAllMessages(d) == SelectSeq(d, MatchesAllMessages)
QueryUserMessages(d) == SelectSeq(d, MatchesUserMessage)
QueryAssistantMessages(d) == SelectSeq(d, MatchesAssistantMessage)

(***************************************************************************)
(* The page around the message list.                                       *)
(*   scrollMatch  the first element matching SELECTORS.scrollContainer:    *)
(*                "none", or present with scrollHeight > clientHeight      *)
(*                ("scrollable") or not ("fixed")                          *)
(*   convRoot     an element outside the message list matches              *)
(*                SELECTORS.conversationContainer (main, or                *)
(*                [data-conversation-id])                                  *)
(*   ancestor     an ancestor-or-self of the conversation container below  *)
(*                body has overflow-y auto/scroll and is scrollable        *)
(*   root         document.documentElement is scrollable                   *)
(***************************************************************************)
Layout(sm, cr, an, rt, ctl) ==
  [scrollMatch |-> sm, convRoot |-> cr, ancestor |-> an, root |-> rt, controls |-> ctl]

\* A clickable control: whether it matches SELECTORS.expandButton, whether it
\* matches SELECTORS.thinkingToggle, and whether it lies inside the first
\* conversation container.
Control(ex, tg, ins) == [expand |-> ex, toggle |-> tg, inside |-> ins]

Layouts ==
  {Layout("scrollable", TRUE, FALSE, FALSE,      \* #chat-history inside main
          <<Control(TRUE, FALSE, TRUE), Control(FALSE, TRUE, TRUE)>>),
   Layout("fixed", TRUE, TRUE, FALSE, <<Control(TRUE, TRUE, TRUE)>>),
   Layout("none", TRUE, FALSE, TRUE, <<Control(TRUE, FALSE, FALSE)>>),
   Layout("none", TRUE, FALSE, FALSE, <<>>),
   Layout("scrollable", FALSE, FALSE, FALSE, <<>>),  \* [data-scroll-container] alone
   Layout("none", FALSE, FALSE, FALSE, <<>>)}

VARIABLES
  page,   \* the host document: layout, doc, streaming, scrollTop, clicks (per
          \* control), progressElement, loading (a loading indicator is
          \* visible), and hostBudget, the host changes left
  call,   \* call[c]: the locals of call c and where it is suspended
  popup   \* the popup document and the handleExtract it runs

vars == <<page, call, popup>>

\* document.querySelector(SELECTORS.conversationContainer) finds an element
HasConversationContainer(pg) ==
  pg.layout.convRoot \/ \E i \in 1..Len(pg.doc) : MatchesConversationContainer(pg.doc[i])

showProgress(pg) == [pg EXCEPT !.progressElement = TRUE]

hideProgress(pg) == [pg EXCEPT !.progressElement = FALSE]

validateSelectors_ContainerOnly(pg) ==
  LET missing == IF ~HasConversationContainer(pg) THEN <<"conversationContainer">> ELSE <<>>
  IN  [valid |-> Len(missing) = 0, missing |-> missing]

validateSelectors_MessagesOnly(pg) ==
  LET noMessages ==
        /\ Len(QueryAllMessages(pg.doc)) = 0
        /\ Len(QueryUserMessages(pg.doc)) = 0
        /\ Len(QueryAssistantMessages(pg.doc)) = 0
      missing == IF noMessages THEN <<"messages">> ELSE <<>>
  IN  [valid |-> Len(missing) = 0, missing |-> missing]

validateSelectors(pg) ==
  LET noContainer == ~HasConversationContainer(pg)
      noMessages ==
        /\ Len(QueryAllMessages(pg.doc)) = 0
        /\ Len(QueryUserMessages(pg.doc)) = 0
        /\ Len(QueryAssistantMessages(pg.doc)) = 0
      missing ==
        (IF noContainer THEN <<"conversationContainer">> ELSE <<>>)
          \o (IF noMessages THEN <<"messages">> ELSE <<>>)
  IN  [valid |-> Len(missing) = 0, missing |-> missing]

isStreaming(pg) == pg.streaming

countMessages(d) ==
  IF Len(QueryAllMessages(d)) > 0
    THEN Len(QueryAllMessages(d))
    ELSE Len(QueryUserMessages(d)) + Len(QueryAssistantMessages(d))

\* The element findScrollContainer returns, "null" for none.
findScrollContainer(pg) ==
  IF pg.layout.scrollMatch = "scrollable" THEN "scrollContainer"
  ELSE IF ~HasConversationContainer(pg) THEN "null"
  ELSE IF pg.layout.ancestor THEN "ancestor"
  ELSE IF pg.layout.root THEN "documentElement"
  ELSE "body"

\* Whether the region found has anything to scroll (body is the fallback
\* when nothing is scrollable).
RegionScrolls(pg) == findScrollContainer(pg) \notin {"null", "body"}

(***************************************************************************)
(* Results of scrollToLoadAllMessages.  An absent field of the JavaScript  *)
(* object is the empty string here.                                        *)
(***************************************************************************)
NoWarning == ""
CeilingWarning == "Reached maximum scroll attempts (1000). Conversation may be incomplete."

ScrollSoftFailure ==
  [success |-> FALSE, error |-> "Could not find scroll container",
   messagesLoaded |-> 0, scrollAttempts |-> 0, warning |-> NoWarning]

ScrollLoaded(n, attempts) ==
  [success |-> TRUE, error |-> "", messagesLoaded |-> n,
   scrollAttempts |-> attempts, warning |-> NoWarning]

ScrollCeiling(n, attempts) ==
  [success |-> TRUE, error |-> "", messagesLoaded |-> n,
   scrollAttempts |-> attempts, warning |-> CeilingWarning]

NoScrollResult ==
  [success |-> FALSE, error |-> "", messagesLoaded |-> 0,
   scrollAttempts |-> 0, warning |-> NoWarning]

(***************************************************************************)
(* Turns, attachments and the records of the image pipeline.  null and     *)
(* undefined fields of the JavaScript objects are NoFilename, NoError,     *)
(* NoText.                                                                 *)
(***************************************************************************)
NoFilename == [num |-> 0, ext |-> ""]
NoError == <<>>
NoText == [null |-> TRUE, text |-> <<>>]

Attachment(src) ==
  [type |-> "image", filename |-> NoFilename, originalSrc |-> src, error |-> NoError]

\* A code region of a message body, <pre><code>x</code></pre>, as one text
\* token, and the fenced block extractTextContent puts in its place.
CodeRegion == "<pre><code>x</code></pre>"
FencedBlock == "~~~ x ~~~"

\* pre.replaceWith(document.createTextNode(fenced)) for one token
Fence(tok) == IF tok = CodeRegion THEN FencedBlock ELSE tok

\* element.cloneNode(true): a detached deep copy.  live is the element the
\* document holds, clone the copy the function goes on to work on.
cloneNode(e) == [live |-> e, clone |-> e]

\* codeBlocks.forEach(...): every code region replaced by its fenced text
FenceAll(e) ==
  [e EXCEPT !.text = [k \in 1..Len(@) |-> Fence(@[k])],
            !.thoughts = [k \in 1..Len(@) |-> Fence(@[k])]]

ReplaceCodeBlocks_InPlace(w) == [live |-> FenceAll(w.live), clone |-> FenceAll(w.clone)]

\* the replacement is done on the clone
ReplaceCodeBlocks(w) == [w EXCEPT !.clone = FenceAll(@)]

\* node.textContent: the reasoning sections, then the body
textContent(e) == e.thoughts \o e.text

\* extractTextContent(element): the text returned, and the element after it
TextContentOf(e) ==
  LET w == ReplaceCodeBlocks(cloneNode(e))
  IN  [text |-> textContent(w.clone), live |-> w.live]

extractTextContent(e) == TextContentOf(e).text

\* extractThinking(element): the text of the first element matching
\* SELECTORS.thinkingContent, or null; and the element after it
ThinkingOf(e) ==
  IF Len(e.thoughts) > 0
    THEN LET thinkingEl == [e EXCEPT !.thoughts = <<>>, !.text = <<e.thoughts[1]>>,
                                     !.imgs = <<>>]
             t == TextContentOf(thinkingEl)
         IN  [value |-> [null |-> FALSE, text |-> t.text],
              live |-> [e EXCEPT !.thoughts[1] = t.live.text[1]]]
    ELSE [value |-> NoText, live |-> e]

extractThinking(e) == ThinkingOf(e).value

findImages(e, turnIndex) ==
  [k \in 1..Len(e.imgs) |-> [src |-> e.imgs[k], turnIndex |-> turnIndex]]

Attachments(e, index) ==
  [k \in 1..Len(e.imgs) |-> Attachment(findImages(e, index)[k].src)]

\* extractUserTurn(element, index): the turn, and the element after it
UserTurnOf(e, index) ==
  LET t == TextContentOf(e)
  IN  [turn |-> [index |-> index, role |-> "user", content |-> t.text,
                 thinking |-> NoText, attachments |-> Attachments(t.live, index)],
       live |-> t.live]

extractUserTurn(e, index) == UserTurnOf(e, index).turn

\* thinkingEl = contentClone.querySelector(...); if (thinkingEl) thinkingEl.remove()
DropFirstThought(e) ==
  IF Len(e.thoughts) > 0 THEN [e EXCEPT !.thoughts = Tail(@)] ELSE e

RemoveThinking_InPlace(w) ==
  [live |-> DropFirstThought(w.live), clone |-> DropFirstThought(w.clone)]

\* the first reasoning section is removed from contentClone
RemoveThinking(w) == [w EXCEPT !.clone = DropFirstThought(@)]

\* extractAssistantTurn(element, index): the turn, and the element after it
AssistantTurnOf(e, index) ==
  LET th == ThinkingOf(e)
      w == RemoveThinking(cloneNode(th.live))
      content == TextContentOf(w.clone)
  IN  [turn |-> [index |-> index, role |-> "assistant", content |-> content.text,
                 thinking |-> th.value, attachments |-> Attachments(th.live, index)],
       live |-> w.live]

extractAssistantTurn(e, index) == AssistantTurnOf(e, index).turn

\* element.matches(SELECTORS.userMessage) || data-message-author-role === 'user' || ...
IsUserElement(e) ==
  \/ MatchesUserMessage(e)
  \/ e.kind = "roleUser"
  \/ e.kind \in {"userQueryContainer", "bothContainers"}

\* the body of the loop of extractTurns for messageElements[i]
TurnOf(e, i) ==
  IF IsUserElement(e) THEN UserTurnOf(e, i) ELSE AssistantTurnOf(e, i)

TurnFor(e, i) == TurnOf(e, i).turn

\* Array.from(document.querySelectorAll(sel)) as positions in d, in document
\* order, for sel the user or the assistant pattern
PositionsOf(d, sel) ==
  LET Hit(k) == IF sel = "userMessage" THEN MatchesUserMessage(d[k])
                                       ELSE MatchesAssistantMessage(d[k])
  IN  SelectSeq([k \in 1..Len(d) |-> k], Hit)

\* Array.prototype.sort with the compareDocumentPosition comparator
RECURSIVE SortByPosition(_)
SortByPosition(ps) ==
  IF Len(ps) = 0 THEN <<>>
  ELSE LET m == CHOOSE x \in {ps[k] : k \in 1..Len(ps)} :
                  \A y \in {ps[k] : k \in 1..Len(ps)} : x <= y
           first == CHOOSE k \in 1..Len(ps) : ps[k] = m
       IN  <<m>> \o SortByPosition(SubSeq(ps, 1, first - 1) \o SubSeq(ps, first + 1, Len(ps)))

\* The elements extractTurns walks: the allMessages matches, or, when there
\* is none, the user and assistant matches interleaved by position.
MessageElements(d) ==
  IF Len(QueryAllMessages(d)) = 0
    THEN LET allMsgs == SortByPosition(PositionsOf(d, "userMessage")
                                         \o PositionsOf(d, "assistantMessage"))
         IN  [k \in 1..Len(allMsgs) |-> d[allMsgs[k]]]
    ELSE QueryAllMessages(d)

\* the same list as positions in d: the nodes messageElements refers to
MessageNodes(d) ==
  IF Len(QueryAllMessages(d)) = 0
    THEN SortByPosition(PositionsOf(d, "userMessage") \o PositionsOf(d, "assistantMessage"))
    ELSE LET Hit(k) == MatchesAllMessages(d[k])
         IN  SelectSeq([k \in 1..Len(d) |-> k], Hit)

\* The document after the loop body has run on messageElements[from..to]
\* (0-based): what each extraction did to the element it was handed.  A node
\* listed twice is handed to extractUserTurn twice, whose effect on the
\* element is the same the second time.
TouchedDoc(d, elems, nodes, from, to) ==
  [p \in 1..Len(d) |->
     IF \E k \in (from + 1)..Min(to + 1, Len(nodes)) : nodes[k] = p /\ d[p] = elems[k]
       THEN TurnOf(d[p], 0).live
       ELSE d[p]]

\* The loop of extractTurns from index i (0-based) up to the next
\* `await sleep(0)` or the end.
TurnsFrom_YieldEach(elems, i, turns) ==
  IF i >= Len(elems) THEN [i |-> i, turns |-> turns, yield |-> FALSE]
  ELSE [i |-> i, turns |-> Append(turns, TurnFor(elems[i + 1], i)), yield |-> i > 0]

RECURSIVE TurnsFrom(_, _, _)
TurnsFrom(elems, i, turns) ==
  IF i >= Len(elems) THEN [i |-> i, turns |-> turns, yield |-> FALSE]
  ELSE LET pushed == Append(turns, TurnFor(elems[i + 1], i))
       IN  IF i > 0 /\ i % TURN_BATCH_SIZE = 0
             THEN [i |-> i, turns |-> pushed, yield |-> TRUE]
             ELSE TurnsFrom(elems, i + 1, pushed)

(***************************************************************************)
(* fetchImage.  outcome is what the network does with a read: "ok", a      *)
(* non-success status, or a thrown error.  An inline payload needs no      *)
(* read.                                                                   *)
(***************************************************************************)
NetOutcomes == {"ok", "status", "throws"}

IsDataUrl(src) == src.scheme = "data"

ImageData_NumberByTurn(src, turnIndex, imageIndex, ext) ==
  [settled |-> TRUE, blob |-> TRUE, filename |-> [num |-> turnIndex + 1, ext |-> ext],
   originalSrc |-> src, turnIndex |-> turnIndex,
   type |-> "", message |-> NoError, timestamp |-> ""]

ImageData_NumberFromZero(src, turnIndex, imageIndex, ext) ==
  [settled |-> TRUE, blob |-> TRUE, filename |-> [num |-> imageIndex - 1, ext |-> ext],
   originalSrc |-> src, turnIndex |-> turnIndex,
   type |-> "", message |-> NoError, timestamp |-> ""]

ImageData(src, turnIndex, imageIndex, ext) ==
  [settled |-> TRUE, blob |-> TRUE, filename |-> [num |-> imageIndex, ext |-> ext],
   originalSrc |-> src, turnIndex |-> turnIndex,
   type |-> "", message |-> NoError, timestamp |-> ""]

ImageError(src, turnIndex, message) ==
  [settled |-> TRUE, blob |-> FALSE, filename |-> NoFilename,
   originalSrc |-> src, turnIndex |-> turnIndex,
   type |-> "image_fetch", message |-> message, timestamp |-> "now"]

PendingRead(src, turnIndex) ==
  [settled |-> FALSE, blob |-> FALSE, filename |-> NoFilename,
   originalSrc |-> src, turnIndex |-> turnIndex,
   type |-> "", message |-> NoError, timestamp |-> ""]

\* what the network answers or throws in the two failing outcomes
StatusCode == "404"
StatusText == "Not Found"
ThrownMessage == "Failed to fetch"
AtobMessage == "The string to be decoded is not correctly encoded."

\* `HTTP ${response.status}: ${response.statusText}`, as its pieces
HttpMessage(status, statusText) == <<"HTTP ", status, ": ", statusText>>

\* error.message || 'Unknown fetch error'
CaughtMessage(m) == IF m = "" THEN <<"Unknown fetch error">> ELSE <<m>>

fetchImage_IgnoreStatus(src, turnIndex, imageIndex, outcome) ==
  IF IsDataUrl(src)
    THEN CASE src.form = "malformed" -> ImageError(src, turnIndex, <<"Invalid data URL format">>)
           [] src.form = "undecodable" -> ImageError(src, turnIndex, CaughtMessage(AtobMessage))
           [] OTHER -> ImageData(src, turnIndex, imageIndex, "png")
    ELSE CASE outcome = "throws" -> ImageError(src, turnIndex, CaughtMessage(ThrownMessage))
           [] OTHER -> ImageData(src, turnIndex, imageIndex, "jpg")

fetchImage(src, turnIndex, imageIndex, outcome) ==
  IF IsDataUrl(src)
    THEN CASE src.form = "malformed" -> ImageError(src, turnIndex, <<"Invalid data URL format">>)
           [] src.form = "undecodable" -> ImageError(src, turnIndex, CaughtMessage(AtobMessage))
           [] OTHER -> ImageData(src, turnIndex, imageIndex, "png")
    ELSE CASE outcome = "status" ->
                ImageError(src, turnIndex, HttpMessage(StatusCode, StatusText))
           [] outcome = "throws" -> ImageError(src, turnIndex, CaughtMessage(ThrownMessage))
           [] OTHER -> ImageData(src, turnIndex, imageIndex, "jpg")

\* imageSources: every attachment with a non-empty originalSrc, with the
\* position <<turn, attachment>> of the attachment object it refers to
RECURSIVE SourcesOfTurn(_, _, _)
SourcesOfTurn(turns, t, a) ==
  IF a > Len(turns[t].attachments) THEN <<>>
  ELSE LET att == turns[t].attachments[a]
       IN  (IF att.type = "image" /\ att.originalSrc # NoSrc
              THEN <<[src |-> att.originalSrc, turnIndex |-> turns[t].index, at |-> <<t, a>>]>>
              ELSE <<>>)
           \o SourcesOfTurn(turns, t, a + 1)

RECURSIVE ImageSources(_, _)
ImageSources(turns, t) ==
  IF t > Len(turns) THEN <<>>
  ELSE SourcesOfTurn(turns, t, 1) \o ImageSources(turns, t + 1)

(***************************************************************************)
(* A call: the locals of one invocation.  entry names the function the     *)
(* caller invoked; pc names the await the call is suspended at.  The obs*  *)
(* fields are not program state: they record what happened, for the        *)
(* properties.  batchSize is the constant BATCH_SIZE of extractImages; it  *)
(* is a field so that the pipeline can be run with another batch size.     *)
(***************************************************************************)
NoData ==
  [metadata |-> [turnCount |-> 0, imageCount |-> 0, extractionErrors |-> <<>>,
                 partialSuccess |-> FALSE,
                 scrollInfo |-> [messagesLoaded |-> 0, scrollAttempts |-> 0]],
   turns |-> <<>>]

NoResult ==
  [fields |-> {}, success |-> FALSE, error |-> <<>>, data |-> NoData,
   images |-> <<>>, warnings |-> <<>>]

ConvFailure(error) ==
  [fields |-> {"success", "error"}, success |-> FALSE, error |-> error,
   data |-> NoData, images |-> <<>>, warnings |-> <<>>]

\* a success that leaves out the warnings
ConvSuccess_NoWarnings(data, images, warnings) ==
  [fields |-> {"success", "data", "images"}, success |-> TRUE,
   error |-> <<>>, data |-> data, images |-> images, warnings |-> <<>>]

ConvSuccess(data, images, warnings) ==
  [fields |-> {"success", "data", "images", "warnings"}, success |-> TRUE,
   error |-> <<>>, data |-> data, images |-> images, warnings |-> warnings]

IdleCall ==
  [entry |-> "none", pc |-> "idle", request |-> "none", onProgress |-> "none",
   lastMessageCount |-> 0, stableCount |-> 0, scrollAttempts |-> 0,
   lastScrollTop |-> 0, currentScrollTop |-> 0, scrollResult |-> NoScrollResult,
   expandQueue |-> <<>>, expandStage |-> "none", expandedCount |-> 0,
   messageElements |-> <<>>, messageNodes |-> <<>>, i |-> 0, turns |-> <<>>,
   imageSources |-> <<>>, batchSize |-> BATCH_SIZE, batchStart |-> 0, imageIndex |-> 1,
   images |-> <<>>, errors |-> <<>>, reads |-> <<>>,
   result |-> NoResult,
   readers |-> <<>>, responses |-> <<>>, returned |-> "none",
   observers |-> 0, mutationDetected |-> FALSE, quietRounds |-> 0, loadingPolls |-> 0,
   obsMutCur |-> FALSE, obsMutPrev |-> FALSE, obsStill |-> FALSE, obsDispatched |-> FALSE,
   obsExit |-> "none", obsThrew |-> "none", obsStarted |-> 0, obsOutcomes |-> <<>>,
   obsReadsOf |-> <<>>, obsTurnsRun |-> FALSE, obsFailed |-> 0, obsReads |-> 0,
   obsDoc |-> <<>>, obsTurns |-> <<>>, obsClicks |-> <<>>]

St(pg, me) == [pg |-> pg, me |-> me]

(***************************************************************************)
(* The message listener, after extractConversation() resolves.             *)
(***************************************************************************)
\* sendResponse(result)
SendResponse(me, result) == [me EXCEPT !.responses = Append(@, result), !.pc = "done"]

\* .then(result => ...): one FileReader per image, or the response at once
ListenerThen(pg, me, result) ==
  IF Len(result.images) > 0
    THEN St(pg, [me EXCEPT !.result = result,
                           !.readers = [k \in 1..Len(result.images) |-> "reading"],
                           !.pc = "readersAwait"])
    ELSE St(pg, SendResponse([me EXCEPT !.result = result], result))

\* reader.onload of image k: the inner promise resolves; when the last one
\* has, Promise.all resolves and the response is sent.
ReaderLoaded(pg, me, k) ==
  LET readers == [me.readers EXCEPT ![k] = "loaded"]
      me2 == [me EXCEPT !.readers = readers]
  IN  IF \A j \in 1..Len(readers) : readers[j] = "loaded"
        THEN St(pg, SendResponse(me2, me.result))
        ELSE St(pg, me2)

\* return of extractConversation to whoever awaited it
ConvReturns(pg, me, result) ==
  IF me.entry = "listener"
    THEN ListenerThen(pg, me, result)
    ELSE St(pg, [me EXCEPT !.result = result, !.pc = "done"])

(***************************************************************************)
(* extractConversation after Phase 5: warnings, result, cleanup.           *)
(***************************************************************************)
ConvCatch_Rethrow(pg, me, message) ==
  St(pg, [me EXCEPT !.obsThrew = message, !.pc = "rejected"])

ConvCatch_KeepProgress(pg, me, message) ==
  ConvReturns(pg, [me EXCEPT !.obsThrew = message],
              ConvFailure(<<"Extraction failed: ", message>>))

\* catch (error): hideProgress() and the failure that carries error.message
ConvCatch(pg, me, message) ==
  ConvReturns(hideProgress(pg), [me EXCEPT !.obsThrew = message],
              ConvFailure(<<"Extraction failed: ", message>>))

PartialSuccess_ErrorsOnly(errors, scrollResult) == Len(errors) > 0

\* errors.length > 0 || !!scrollResult.warning
PartialSuccess(errors, scrollResult) ==
  Len(errors) > 0 \/ scrollResult.warning # NoWarning

ImagesFailedWarning(n) == [text |-> " image(s) failed to download", n |-> n]

ScrollWarning(w) == [text |-> w, n |-> 0]

ConvAssemble(pg, me) ==
  LET warnings ==
        (IF me.scrollResult.warning # NoWarning
           THEN <<ScrollWarning(me.scrollResult.warning)>> ELSE <<>>)
        \o (IF Len(me.errors) > 0 THEN <<ImagesFailedWarning(Len(me.errors))>> ELSE <<>>)
      data ==
        [metadata |->
           [turnCount |-> Len(me.turns), imageCount |-> Len(me.images),
            extractionErrors |-> me.errors,
            partialSuccess |-> PartialSuccess(me.errors, me.scrollResult),
            scrollInfo |-> [messagesLoaded |-> me.scrollResult.messagesLoaded,
                            scrollAttempts |-> me.scrollResult.scrollAttempts]],
         turns |-> me.turns]
  IN  ConvReturns(hideProgress(pg), me, ConvSuccess(data, me.images, warnings))

(***************************************************************************)
(* extractImages                                                           *)
(***************************************************************************)
\* return of extractImages to whoever awaited it
ImagesReturns(pg, me) ==
  IF me.entry = "extractImages"
    THEN St(pg, [me EXCEPT !.pc = "done"])
    ELSE ConvAssemble(pg, me)

RecordResult_DropErrors(me, item, result) ==
  IF result.blob
    THEN [me EXCEPT !.images = Append(@, result),
                    !.turns[item.at[1]].attachments[item.at[2]].filename = result.filename,
                    !.imageIndex = @ + 1]
    ELSE [me EXCEPT !.imageIndex = @ + 1]

RecordResult_NameFailures(me, item, result) ==
  IF result.blob
    THEN [me EXCEPT !.images = Append(@, result),
                    !.turns[item.at[1]].attachments[item.at[2]].filename = result.filename,
                    !.imageIndex = @ + 1]
    ELSE [me EXCEPT !.errors = Append(@, result),
                    !.turns[item.at[1]].attachments[item.at[2]].filename =
                       [num |-> me.imageIndex, ext |-> "png"],
                    !.turns[item.at[1]].attachments[item.at[2]].error = result.message,
                    !.imageIndex = @ + 1]

RecordResult_DropFailedAttachment(me, item, result) ==
  IF result.blob
    THEN [me EXCEPT !.images = Append(@, result),
                    !.turns[item.at[1]].attachments[item.at[2]].filename = result.filename,
                    !.imageIndex = @ + 1]
    ELSE [me EXCEPT !.errors = Append(@, result),
                    !.turns[item.at[1]].attachments[item.at[2]].originalSrc = NoSrc,
                    !.imageIndex = @ + 1]

RecordResult_CountSuccesses(me, item, result) ==
  IF result.blob
    THEN [me EXCEPT !.images = Append(@, result),
                    !.turns[item.at[1]].attachments[item.at[2]].filename = result.filename,
                    !.imageIndex = @ + 1]
    ELSE [me EXCEPT !.errors = Append(@, result),
                    !.turns[item.at[1]].attachments[item.at[2]].error = result.message]

\* the body of results.forEach for one result
RecordResult(me, item, result) ==
  IF result.blob
    THEN [me EXCEPT !.images = Append(@, result),
                    !.turns[item.at[1]].attachments[item.at[2]].filename = result.filename,
                    !.imageIndex = @ + 1]
    ELSE [me EXCEPT !.errors = Append(@, result),
                    !.turns[item.at[1]].attachments[item.at[2]].error = result.message,
                    !.imageIndex = @ + 1]

RECURSIVE RecordResults(_, _, _, _)
RecordResults(me, batch, results, k) ==
  IF k > Len(results) THEN me
  ELSE RecordResults(RecordResult(me, batch[k], results[k]), batch, results, k + 1)

Batch_Rest(sources, i, size) == SubSeq(sources, i + 1, Len(sources))

\* imageSources.slice(i, i + BATCH_SIZE)
Batch(sources, i, size) == SubSeq(sources, i + 1, Min(i + size, Len(sources)))

\* The head of the batch loop: the reads of a batch are started together;
\* inline payloads are decoded on the spot.  When every read of the batch has
\* settled the results are recorded and the next batch starts.
RECURSIVE ImagesLoop(_, _)
ImagesLoop(pg, me) ==
  IF me.batchStart >= Len(me.imageSources) THEN ImagesReturns(pg, me)
  ELSE LET batch == Batch(me.imageSources, me.batchStart, me.batchSize)
           reads ==
             [k \in 1..Len(batch) |->
                IF IsDataUrl(batch[k].src)
                  THEN fetchImage(batch[k].src, batch[k].turnIndex, me.imageIndex + (k - 1), "ok")
                  ELSE PendingRead(batch[k].src, batch[k].turnIndex)]
           me2 == [me EXCEPT !.reads = reads, !.pc = "imagesAwait",
                             !.obsStarted = @ + Len(batch)]
       IN  IF \A k \in 1..Len(reads) : reads[k].settled
             THEN ImagesLoop(showProgress(pg),
                             [RecordResults(me2, batch, reads, 1) EXCEPT
                                !.batchStart = @ + me.batchSize, !.reads = <<>>])
             ELSE St(showProgress(pg), me2)

ReadSettles_RetryFailed(pg, me, k, outcome) ==
  IF outcome # "ok" /\ me.obsReadsOf[me.batchStart + k] < 2
    THEN St(pg, me)
    ELSE LET batch == Batch(me.imageSources, me.batchStart, me.batchSize)
             reads == [me.reads EXCEPT ![k] =
                         fetchImage(batch[k].src, batch[k].turnIndex,
                                    me.imageIndex + (k - 1), outcome)]
             me2 == [me EXCEPT !.reads = reads]
         IN  IF \A j \in 1..Len(reads) : reads[j].settled
               THEN ImagesLoop(pg, [RecordResults(me2, batch, reads, 1) EXCEPT
                                      !.batchStart = @ + me.batchSize, !.reads = <<>>])
               ELSE St(pg, me2)

\* The network read of batch item k settles with outcome.
ReadSettles(pg, me, k, outcome) ==
  LET batch == Batch(me.imageSources, me.batchStart, me.batchSize)
      reads == [me.reads EXCEPT ![k] =
                  fetchImage(batch[k].src, batch[k].turnIndex, me.imageIndex + (k - 1), outcome)]
      me2 == [me EXCEPT !.reads = reads]
  IN  IF \A j \in 1..Len(reads) : reads[j].settled
        THEN ImagesLoop(pg, [RecordResults(me2, batch, reads, 1) EXCEPT
                               !.batchStart = @ + me.batchSize, !.reads = <<>>])
        ELSE St(pg, me2)

ImagesEnter(pg, me) ==
  ImagesLoop(pg, [me EXCEPT !.images = <<>>, !.errors = <<>>, !.imageIndex = 1,
                            !.imageSources = ImageSources(me.turns, 1),
                            !.batchStart = 0, !.obsTurns = me.turns,
                            !.obsOutcomes = [k \in 1..Len(ImageSources(me.turns, 1)) |-> "ok"],
                            !.obsReadsOf = [k \in 1..Len(ImageSources(me.turns, 1)) |-> 0]])

(***************************************************************************)
(* extractTurns                                                            *)
(***************************************************************************)
\* return of extractTurns to whoever awaited it
TurnsReturns(pg, me) ==
  IF me.entry = "extractTurns"
    THEN St(pg, [me EXCEPT !.pc = "done"])
    ELSE ImagesEnter(pg, me)

\* the loop from me.i up to the next `await sleep(0)` or the return
TurnsRun(pg, me) ==
  LET r == TurnsFrom(me.messageElements, me.i, me.turns)
      me2 == [me EXCEPT !.turns = r.turns, !.i = r.i, !.obsTurnsRun = TRUE]
      pg2 == [pg EXCEPT !.doc = TouchedDoc(@, me.messageElements, me.messageNodes,
                                           me.i, r.i)]
  IN  IF r.yield
        THEN St(showProgress(pg2), [me2 EXCEPT !.pc = "turnsYield"])
        ELSE TurnsReturns(pg2, me2)

TurnsEnter(pg, me) ==
  TurnsRun(pg, [me EXCEPT !.messageElements = MessageElements(pg.doc),
                          !.messageNodes = MessageNodes(pg.doc),
                          !.i = 0, !.turns = <<>>])

\* after `await sleep(0)`: i++ and on with the loop
TurnsResume(pg, me) == TurnsRun(pg, [me EXCEPT !.i = @ + 1])

(***************************************************************************)
(* expandAllContent and Phases 2-4 of extractConversation                  *)
(***************************************************************************)
\* Phase 3 and 4, after `await sleep(500)`
ConvAfterSettle(pg, me) == TurnsEnter(showProgress(showProgress(pg)), me)

\* return of expandAllContent: `await sleep(500)`
ExpandReturns(pg, me) == St(pg, [me EXCEPT !.pc = "settleSleep", !.expandStage = "none"])

\* container.querySelectorAll(sel): the controls inside the first
\* conversation container that match sel, as indices into layout.controls
ControlsMatching(pg, sel) ==
  LET cs == pg.layout.controls
      Hit(k) == cs[k].inside /\ (IF sel = "expandButton" THEN cs[k].expand ELSE cs[k].toggle)
  IN  SelectSeq([k \in 1..Len(cs) |-> k], Hit)

\* One click and the `await sleep(300)` after it, or, with a list exhausted,
\* the next list or the return.
ExpandLoop(pg, me) ==
  IF Len(me.expandQueue) > 0
    THEN St([pg EXCEPT !.clicks[Head(me.expandQueue)] = @ + 1],
            [me EXCEPT !.expandQueue = Tail(@), !.expandedCount = @ + 1,
                       !.obsClicks = Append(@, Head(me.expandQueue)),
                       !.pc = "expandSleep"])
  ELSE IF me.expandStage = "buttons"
    THEN LET toggles == ControlsMatching(pg, "thinkingToggle")
         IN  IF Len(toggles) > 0
               THEN St([pg EXCEPT !.clicks[Head(toggles)] = @ + 1],
                       [me EXCEPT !.expandQueue = Tail(toggles), !.expandStage = "toggles",
                                  !.expandedCount = @ + 1,
                                  !.obsClicks = Append(@, Head(toggles)),
                                  !.pc = "expandSleep"])
               ELSE ExpandReturns(pg, me)
  ELSE ExpandReturns(pg, me)

expandAllContent(pg, me) ==
  IF ~HasConversationContainer(pg)
    THEN ExpandReturns(pg, [me EXCEPT !.expandedCount = 0, !.obsClicks = <<>>])
    ELSE ExpandLoop(pg, [me EXCEPT !.expandedCount = 0, !.obsClicks = <<>>,
                                   !.expandStage = "buttons",
                                   !.expandQueue = ControlsMatching(pg, "expandButton")])

ConvAfterScroll_Gated(pg, me) ==
  IF me.scrollResult.warning # NoWarning \/ ~me.scrollResult.success
    THEN ConvReturns(hideProgress(pg), me, ConvFailure(<<"Extraction failed: ", me.scrollResult.warning>>))
    ELSE expandAllContent(showProgress(pg), me)

\* Phase 2 of extractConversation, entered when the scroll loader returns.
ConvAfterScroll(pg, me) == expandAllContent(showProgress(pg), me)

(***************************************************************************)
(* scrollToLoadAllMessages                                                 *)
(***************************************************************************)
\* return of scrollToLoadAllMessages to whoever awaited it
\* (the locals of the loader go out of scope)
ScrollReturns(pg, me, result, why) ==
  LET me2 == [me EXCEPT !.scrollResult = result, !.obsExit = why,
                        !.lastMessageCount = 0, !.stableCount = 0, !.scrollAttempts = 0,
                        !.lastScrollTop = 0, !.currentScrollTop = 0,
                        !.obsMutCur = FALSE, !.obsMutPrev = FALSE, !.obsStill = FALSE]
  IN  IF me.entry = "scrollToLoadAllMessages"
        THEN St(pg, [me2 EXCEPT !.pc = "done"])
        ELSE ConvAfterScroll(pg, me2)

\* while (scrollAttempts < SCROLL_CONFIG.maxScrollAttempts)
ScrollMayContinue_NoCeiling(attempts) == TRUE

ScrollMayContinue(attempts) == attempts < maxScrollAttempts

\* The loop head, the scroll write and the suspension on sleep(scrollDelay);
\* past the ceiling, the return that carries the warning.  Between the write
\* and the sleep nothing is dispatched on the region (obsDispatched records a
\* dispatchEvent of the iteration).
ScrollLoop(pg, me) ==
  IF ScrollMayContinue(me.scrollAttempts)
    THEN St([pg EXCEPT !.scrollTop = Max(0, pg.scrollTop - scrollStep)],
            [me EXCEPT !.scrollAttempts = @ + 1, !.pc = "scrollSleep",
                       !.obsMutPrev = me.obsMutCur, !.obsMutCur = FALSE])
    ELSE ScrollReturns(pg, me, ScrollCeiling(countMessages(pg.doc), me.scrollAttempts), "ceiling")

ScrollEnter_NoRegionCheck(pg, me) ==
  ScrollLoop(showProgress(pg),
             [me EXCEPT !.lastMessageCount = countMessages(pg.doc),
                        !.stableCount = 0, !.scrollAttempts = 0,
                        !.lastScrollTop = pg.scrollTop])

\* reportProgress(message) with a callback that throws: showProgress has run,
\* the exception leaves scrollToLoadAllMessages and its promise rejects.
ScrollRejects(pg, me, message) ==
  St(pg, [me EXCEPT !.pc = "done", !.obsThrew = message, !.obsExit = "threw",
                    !.scrollResult = NoScrollResult,
                    !.lastMessageCount = 0, !.stableCount = 0, !.scrollAttempts = 0,
                    !.lastScrollTop = 0, !.currentScrollTop = 0])

\* From the call to the first suspension.  onProgress is the argument of the
\* call: "none" when the caller passes nothing (as extractConversation does),
\* else a callback that returns or one that throws.
ScrollEnter(pg, me) ==
  IF findScrollContainer(pg) = "null"
    THEN ScrollReturns(pg, me, ScrollSoftFailure, "noRegion")
  ELSE IF me.entry = "scrollToLoadAllMessages" /\ me.onProgress = "throws"
    THEN ScrollRejects(showProgress(pg), me, "progress callback")
    ELSE ScrollLoop(showProgress(pg),
                    [me EXCEPT !.lastMessageCount = countMessages(pg.doc),
                               !.stableCount = 0, !.scrollAttempts = 0,
                               !.lastScrollTop = pg.scrollTop])

\* After sleep(scrollDelay): the three branches of the iteration.
ScrollWake(pg, me0) ==
  LET currentScrollTop == pg.scrollTop
      atTop == currentScrollTop = 0
      currentMessageCount == countMessages(pg.doc)
      me == [me0 EXCEPT !.obsStill = (currentScrollTop = me0.lastScrollTop)]
  IN  IF currentMessageCount > me.lastMessageCount
        THEN ScrollLoop(IF me.scrollAttempts % progressUpdateInterval = 0
                          THEN showProgress(pg) ELSE pg,
                        [me EXCEPT !.stableCount = 0,
                                   !.lastMessageCount = currentMessageCount,
                                   !.lastScrollTop = currentScrollTop])
      ELSE IF atTop \/ currentScrollTop = me.lastScrollTop
        THEN IF me.stableCount + 1 >= stabilityChecks
               THEN St(pg, [me EXCEPT !.stableCount = @ + 1,
                                      !.currentScrollTop = currentScrollTop,
                                      !.pc = "scrollStability"])
               ELSE ScrollLoop(pg, [me EXCEPT !.stableCount = @ + 1,
                                              !.lastScrollTop = currentScrollTop])
      ELSE ScrollLoop(pg, [me EXCEPT !.stableCount = 0,
                                     !.lastScrollTop = currentScrollTop])

ScrollFinalCheck_NoRecount(pg, me) ==
  ScrollReturns(showProgress(pg), me,
                ScrollLoaded(countMessages(pg.doc), me.scrollAttempts), "stable")

\* After sleep(stabilityDelay): the final recount.
ScrollFinalCheck(pg, me) ==
  LET finalCount == countMessages(pg.doc)
  IN  IF finalCount = me.lastMessageCount
        THEN ScrollReturns(showProgress(pg), me, ScrollLoaded(finalCount, me.scrollAttempts), "stable")
        ELSE ScrollLoop(pg, [me EXCEPT !.lastMessageCount = finalCount,
                                       !.stableCount = 0,
                                       !.lastScrollTop = me.currentScrollTop,
                                       !.currentScrollTop = 0])

(***************************************************************************)
(* The observing scroll loader: the loader that subscribes to structural   *)
(* mutations of the scroll region instead of counting messages.  observers *)
(* is the number of subscriptions the caller's invocations have registered *)
(* on the region and not released; it is a property of the region, so it   *)
(* outlives the locals of an invocation.                                   *)
(***************************************************************************)
\* observer.observe(scrollContainer, {childList: true, subtree: true})
Subscribe(me) == [me EXCEPT !.observers = @ + 1]

ReleaseOnExit_NotOnThrow(me, why) ==
  IF why = "threw" THEN me ELSE [me EXCEPT !.observers = @ - 1]

\* the release that every exit path past the subscription runs
ReleaseOnExit(me, why) == [me EXCEPT !.observers = @ - 1]

\* the return (or the throw) of the observing loader: its locals go out of
\* scope, the subscription does not
ObservingLeaves(pg, me, result, why) ==
  St(pg, [me EXCEPT !.scrollResult = result, !.obsExit = why, !.pc = "done",
                    !.scrollAttempts = 0, !.lastScrollTop = 0, !.quietRounds = 0,
                    !.loadingPolls = 0, !.mutationDetected = FALSE,
                    !.obsMutCur = FALSE, !.obsMutPrev = FALSE, !.obsDispatched = FALSE])

ObservingReturns(pg, me, result, why) ==
  ObservingLeaves(pg, ReleaseOnExit(me, why), result, why)

\* The loop head: past the ceiling the advisory return; else the mutation
\* flag is cleared, the offset lowered and the loader suspends on the settle
\* delay.
ObservingLoop(pg, me) ==
  IF me.scrollAttempts < maxObservedAttempts
    THEN St([pg EXCEPT !.scrollTop = Max(0, pg.scrollTop - scrollStep)],
            [me EXCEPT !.scrollAttempts = @ + 1, !.mutationDetected = FALSE,
                       !.obsDispatched = TRUE, !.pc = "observeSettle"])
    ELSE ObservingReturns(pg, me, ScrollCeiling(countMessages(pg.doc), me.scrollAttempts),
                          "ceiling")

\* From the call to the first suspension.
ObservingEnter(pg, me) ==
  IF findScrollContainer(pg) = "null"
    THEN ObservingLeaves(pg, me, ScrollSoftFailure, "noRegion")
    ELSE ObservingLoop(pg, Subscribe([me EXCEPT !.scrollAttempts = 0, !.quietRounds = 0,
                                                !.lastScrollTop = pg.scrollTop]))

\* The re-check of position and mutation flag that ends an iteration.
ObservingCheck(pg, me) ==
  LET atTop == pg.scrollTop = 0
      noMovement == pg.scrollTop = me.lastScrollTop
      me2 == [me EXCEPT !.lastScrollTop = pg.scrollTop, !.loadingPolls = 0]
  IN  IF me.mutationDetected
        THEN ObservingLoop(pg, [me2 EXCEPT !.quietRounds = 0])
      ELSE IF atTop \/ noMovement
        THEN IF me.quietRounds + 1 >= quietRoundsNeeded
               THEN ObservingReturns(pg, me2,
                                     ScrollLoaded(countMessages(pg.doc), me.scrollAttempts),
                                     "quiet")
               ELSE ObservingLoop(pg, [me2 EXCEPT !.quietRounds = @ + 1])
      ELSE ObservingLoop(pg, [me2 EXCEPT !.quietRounds = 0])

waitForLoadingComplete_NoCeiling(pg, me) ==
  IF ~pg.loading
    THEN ObservingCheck(pg, me)
    ELSE St(pg, [me EXCEPT !.loadingPolls = @ + 1, !.pc = "loadingPoll"])

\* waitForLoadingComplete, one poll: the indicator is gone, or the wait
\* ceiling has elapsed, or the loader suspends for another interval.
waitForLoadingComplete(pg, me) ==
  IF ~pg.loading \/ me.loadingPolls >= MaxLoadingPolls
    THEN ObservingCheck(pg, me)
    ELSE St(pg, [me EXCEPT !.loadingPolls = @ + 1, !.pc = "loadingPoll"])

\* After the settle delay.  An error thrown inside the loop body (throws)
\* leaves through the release.
ObservingWake(pg, me, throws) ==
  IF throws
    THEN ObservingReturns(pg, me, NoScrollResult, "threw")
    ELSE waitForLoadingComplete(pg, me)

(***************************************************************************)
(* extractConversation, Phase 0 and 1                                      *)
(***************************************************************************)
StreamingError ==
  <<"Gemini is currently generating a response. Please wait for completion before extracting.">>

MissingSelectorsError(missing) ==
  <<"Gemini UI may have changed. Missing selectors: ">> \o missing
    \o <<". Please report this issue.">>

extractConversation_ProgressFirst(pg, me) ==
  IF isStreaming(pg) THEN ConvReturns(showProgress(pg), me, ConvFailure(StreamingError))
  ELSE IF ~validateSelectors(pg).valid
    THEN ConvReturns(showProgress(pg), me,
                     ConvFailure(MissingSelectorsError(validateSelectors(pg).missing)))
  ELSE ScrollEnter(showProgress(pg), me)

extractConversation(pg, me) ==
  IF isStreaming(pg) THEN ConvReturns(pg, me, ConvFailure(StreamingError))
  ELSE IF ~validateSelectors(pg).valid
    THEN ConvReturns(pg, me, ConvFailure(MissingSelectorsError(validateSelectors(pg).missing)))
  ELSE ScrollEnter(showProgress(pg), me)

\* chrome.runtime.onMessage listener, up to its return
Listener(pg, me, action) ==
  IF action = "extract"
    THEN extractConversation(pg, [me EXCEPT !.entry = "listener", !.request = action,
                                            !.returned = "true"])
    ELSE St(pg, [me EXCEPT !.entry = "listener", !.request = action,
                           !.returned = "undefined", !.pc = "done"])

(***************************************************************************)
(* Actions                                                                 *)
(***************************************************************************)
Apply(c, st) ==
  /\ page' = st.pg
  /\ call' = [call EXCEPT ![c] = st.me]
  /\ UNCHANGED popup

\* A caller invokes scrollToLoadAllMessages().
CallScroll(c) ==
  /\ call[c].pc = "idle"
  /\ Apply(c, ScrollEnter(page, [call[c] EXCEPT !.entry = "scrollToLoadAllMessages"]))

\* A caller invokes extractTurns().
CallTurns(c) ==
  /\ call[c].pc = "idle"
  /\ Apply(c, TurnsEnter(page, [call[c] EXCEPT !.entry = "extractTurns"]))

\* the turns extractTurns yields for document d
AllTurns(d) ==
  [k \in 1..Len(MessageElements(d)) |-> TurnFor(MessageElements(d)[k], k - 1)]

\* A caller invokes extractImages(turns) with the turns of the document.
CallImages(c) ==
  /\ call[c].pc = "idle"
  /\ Apply(c, ImagesEnter(page, [call[c] EXCEPT !.entry = "extractImages",
                                                !.turns = AllTurns(page.doc)]))

\* A caller invokes extractConversation().
CallConversation(c) ==
  /\ call[c].pc = "idle"
  /\ Apply(c, extractConversation(page, [call[c] EXCEPT !.entry = "extractConversation",
                                                        !.obsDoc = page.doc]))

\* The popup's (or anyone's) message reaches the listener.
Deliver(c) ==
  /\ call[c].pc = "idle"
  /\ \E action \in {"extract", "unknown"} :
       Apply(c, Listener(page, [call[c] EXCEPT !.obsDoc = page.doc], action))

\* The timer of sleep(scrollDelay) fires.
ScrollDelayElapsed(c) ==
  /\ call[c].pc = "scrollSleep"
  /\ Apply(c, ScrollWake(page, call[c]))

\* The timer of sleep(stabilityDelay) fires.
StabilityDelayElapsed(c) ==
  /\ call[c].pc = "scrollStability"
  /\ Apply(c, ScrollFinalCheck(page, call[c]))

\* The timer of sleep(300) after a click fires.
ExpandDelayElapsed(c) ==
  /\ call[c].pc = "expandSleep"
  /\ Apply(c, ExpandLoop(page, call[c]))

\* The timer of sleep(500) after the expansion fires.
SettleDelayElapsed(c) ==
  /\ call[c].pc = "settleSleep"
  /\ Apply(c, ConvAfterSettle(page, call[c]))

\* The timer of sleep(0) inside extractTurns fires.
TurnsYieldElapsed(c) ==
  /\ call[c].pc = "turnsYield"
  /\ Apply(c, TurnsResume(page, call[c]))

\* A network read of the current batch settles, in one of the ways of
\* outcomes.
ReadSettledWith(c, outcomes) ==
  /\ call[c].pc = "imagesAwait"
  /\ \E k \in 1..Len(call[c].reads), outcome \in outcomes :
       /\ ~call[c].reads[k].settled
       /\ Apply(c, ReadSettles(page,
                               [call[c] EXCEPT !.obsReads = @ + 1,
                                               !.obsOutcomes[call[c].batchStart + k] = outcome,
                                               !.obsReadsOf[call[c].batchStart + k] = @ + 1,
                                               !.obsFailed = IF outcome = "ok" THEN @ ELSE @ + 1],
                               k, outcome))

\* A network read of the current batch settles.
ReadSettled(c) == ReadSettledWith(c, NetOutcomes)

\* A caller invokes the observing loader, for the first time or again after
\* an earlier invocation of theirs has returned or thrown.
CallObserving(c) ==
  /\ \/ call[c].pc = "idle"
     \/ call[c].pc = "done" /\ call[c].entry = "observingLoader"
  /\ Apply(c, ObservingEnter(page, [call[c] EXCEPT !.entry = "observingLoader",
                                                   !.obsExit = "none",
                                                   !.scrollResult = NoScrollResult]))

\* The timer of the settle delay fires.
ObserveSettleElapsed(c) ==
  /\ call[c].pc = "observeSettle"
  /\ \E throws \in BOOLEAN : Apply(c, ObservingWake(page, call[c], throws))

\* The timer of the loading-indicator poll fires.
LoadingPollElapsed(c) ==
  /\ call[c].pc = "loadingPoll"
  /\ Apply(c, waitForLoadingComplete(page, call[c]))

\* extractConversation has been called and has not returned
ConvInFlight(c) ==
  /\ call[c].entry \in {"listener", "extractConversation"}
  /\ call[c].pc \in {"scrollSleep", "scrollStability", "expandSleep", "settleSleep",
                     "turnsYield", "imagesAwait"}

\* the phase whose code runs first when the call resumes from pc
PhaseAt(pc) ==
  CASE pc \in {"idle", "scrollSleep", "scrollStability"} -> "scrolling"
    [] pc = "expandSleep" -> "expansion"
    [] pc = "settleSleep" -> "metadata"
    [] pc = "turnsYield" -> "turn extraction"
    [] OTHER -> "image acquisition"

\* The code that runs when the call resumes (for a request just delivered
\* with its preconditions met: the code after the pre-flight checks) throws.
\* Out of `await Promise.all` the call resumes when the last read settles.
PhaseThrows(c) ==
  LET me == call[c]
      pending == {k \in 1..Len(me.reads) : ~me.reads[k].settled}
  IN  /\ \/ me.pc = "idle" /\ ~isStreaming(page) /\ validateSelectors(page).valid
         \/ ConvInFlight(c) /\ (me.pc = "imagesAwait" => Cardinality(pending) = 1)
      /\ Apply(c, ConvCatch(page,
                            IF me.pc = "idle"
                              THEN [me EXCEPT !.entry = "listener", !.request = "extract",
                                              !.returned = "true", !.obsDoc = page.doc]
                              ELSE [me EXCEPT !.obsReads = @ + Cardinality(pending)],
                            PhaseAt(me.pc)))

\* The FileReader of image k fires load.
ReaderLoad(c) ==
  /\ call[c].pc = "readersAwait"
  /\ \E k \in 1..Len(call[c].readers) :
       /\ call[c].readers[k] = "reading"
       /\ Apply(c, ReaderLoaded(page, call[c], k))

\* The FileReader of image k fires error: no handler is registered for it,
\* so nothing runs.
ReaderError(c) ==
  /\ call[c].pc = "readersAwait"
  /\ \E k \in 1..Len(call[c].readers) :
       /\ call[c].readers[k] = "reading"
       /\ call' = [call EXCEPT ![c].readers[k] = "failed"]
  /\ UNCHANGED <<page, popup>>

(***************************************************************************)
(* The host page.  It acts while some call is suspended.                   *)
(***************************************************************************)
Unbounded == 0 - 1

Suspended(c) == call[c].pc \notin {"idle", "done"}

InScrollLoop(c) ==
  call[c].pc \in {"scrollSleep", "scrollStability", "observeSettle", "loadingPoll"}

\* hostBudget is the number of changes the host still makes; a host with
\* hostBudget = Unbounded reacts to scrolling for as long as a loader scrolls.
HostMayAct ==
  /\ page.hostBudget # 0
  /\ \E c \in Calls : Suspended(c)
  /\ page.hostBudget = Unbounded => \E c \in Calls : InScrollLoop(c)

Spend(pg) == [pg EXCEPT !.hostBudget = IF @ > 0 THEN @ - 1 ELSE @]

\* a childList mutation in the scroll region's subtree, as a MutationObserver
\* on the region would record it
RecordMutation ==
  [c \in Calls |->
     IF InScrollLoop(c)
       THEN [call[c] EXCEPT !.obsMutCur = TRUE,
                            !.mutationDetected = @ \/ call[c].observers > 0]
       ELSE call[c]]

\* The elements the host renders into the message list.
HostElems == {Elem("roleUser", <<"Hello">>, <<>>, <<HttpsUrl>>)}

\* The host renders an older message at the top of the list (a host that
\* never rests keeps at most MaxMsgs rendered).
HostInsert ==
  /\ HostMayAct
  /\ page.hostBudget = Unbounded => Len(page.doc) < MaxMsgs
  /\ \E e \in HostElems : page' = Spend([page EXCEPT !.doc = <<e>> \o page.doc])
  /\ call' = RecordMutation
  /\ UNCHANGED popup

\* The host drops the newest rendered message.
HostRemove ==
  /\ HostMayAct
  /\ Len(page.doc) > 0
  /\ page' = Spend([page EXCEPT !.doc = SubSeq(page.doc, 1, Len(page.doc) - 1)])
  /\ call' = RecordMutation
  /\ UNCHANGED popup

\* Virtualization: the host inserts one node and removes another.
HostRecycle ==
  /\ HostMayAct
  /\ Len(page.doc) > 0
  /\ \E e \in HostElems :
       page' = Spend([page EXCEPT !.doc = <<e>> \o SubSeq(page.doc, 1, Len(page.doc) - 1)])
  /\ call' = RecordMutation
  /\ UNCHANGED popup

\* The host moves the scroll offset (re-anchoring after a render, or the user).
HostScroll ==
  /\ HostMayAct
  /\ RegionScrolls(page)
  /\ \E u \in 0..MaxScrollUnits :
       /\ u * scrollStep # page.scrollTop
       /\ page' = Spend([page EXCEPT !.scrollTop = u * scrollStep])
  /\ UNCHANGED <<call, popup>>

Host == HostInsert \/ HostRemove \/ HostRecycle \/ HostScroll

\* The host shows or hides its loading indicator while a loader scrolls.
HostLoading ==
  /\ \E c \in Calls : InScrollLoop(c)
  /\ page' = [page EXCEPT !.loading = ~@]
  /\ UNCHANGED <<call, popup>>

(***************************************************************************)
(* The popup.  popup holds the popup document (the Extract button, the     *)
(* progress line, the status line, the result panel), the downloads it has *)
(* started, and handleExtract: pc names the await it is suspended at and   *)
(* result is the response it received.  clicks counts the clicks on the    *)
(* button, loadChecked says that the tab query issued when the popup       *)
(* loaded has answered, obsExit names the path handleExtract ended on.     *)
(***************************************************************************)
MaxClicks == 3         \* clicks on the Extract button in one run

NoTab == [exists |-> FALSE, url |-> <<>>]

Tab(url) == [exists |-> TRUE, url |-> url]

Tabs ==
  {NoTab, Tab(<<>>), Tab(<<"https://", "example.com", "/">>),
   Tab(<<"https://", "gemini.google.com", "/app/abc123">>)}

\* url.includes(piece)
includes(url, piece) == \E k \in 1..Len(url) : url[k] = piece

\* !tab || !tab.url || !tab.url.includes('gemini.google.com')
NotGemini(tab) ==
  ~tab.exists \/ tab.url = <<>> \/ ~includes(tab.url, "gemini.google.com")

PopupOpened ==
  [pc |-> "idle", disabled |-> FALSE, buttonText |-> "Extract Conversation",
   progressVisible |-> FALSE, status |-> "ready", resultVisible |-> FALSE,
   result |-> NoResult, downloads |-> 0, clicks |-> 0, loadChecked |-> FALSE,
   obsExit |-> "none"]

setStatus(pp, type) == [pp EXCEPT !.status = type]

showPopupProgress(pp) == [pp EXCEPT !.progressVisible = TRUE]

hidePopupProgress(pp) == [pp EXCEPT !.progressVisible = FALSE]

showResult(pp) == [pp EXCEPT !.resultVisible = TRUE]

setButtonState(pp, enabled, text) ==
  [pp EXCEPT !.disabled = ~enabled, !.buttonText = text]

\* downloadBlob: chrome.downloads.download is called
downloadBlob(pp) == [pp EXCEPT !.downloads = @ + 1]

PopupEnds(pp, exit) == [pp EXCEPT !.pc = "idle", !.obsExit = exit]

PopupCatch_KeepDisabled(pp) ==
  PopupEnds(hidePopupProgress(setStatus(pp, "error")), "threw")

\* catch (error) of handleExtract
PopupCatch(pp) ==
  PopupEnds(hidePopupProgress(setButtonState(setStatus(pp, "error"), TRUE,
                                             "Extract Conversation")),
            "threw")

\* handleExtract up to await chrome.tabs.query
handleExtract(pp) ==
  [showPopupProgress(setStatus(setButtonState(pp, FALSE, "Extracting..."), "info"))
     EXCEPT !.pc = "tabsQuery", !.result = NoResult, !.obsExit = "none",
            !.clicks = @ + 1]

\* from the answer of chrome.tabs.query to the promise around sendMessage
AfterTabsQuery(pp, tab) ==
  IF NotGemini(tab)
    THEN PopupEnds(hidePopupProgress(setButtonState(setStatus(pp, "error"), TRUE,
                                                    "Extract Conversation")),
                   "notGemini")
    ELSE [showPopupProgress(pp) EXCEPT !.pc = "sendMessage"]

\* from the callback of sendMessage to await createZip.  lastError rejects
\* the promise; an undefined response, or a success without data, makes the
\* property reads throw.
AfterSendMessage(pp0, lastError, response) ==
  LET pp == [pp0 EXCEPT !.result = IF lastError THEN NoResult ELSE response]
  IN  IF lastError \/ response = NoResult THEN PopupCatch(pp)
      ELSE IF ~response.success
        THEN PopupEnds(hidePopupProgress(setButtonState(setStatus(pp, "error"), TRUE,
                                                        "Extract Conversation")),
                       "failed")
      ELSE IF "data" \notin response.fields THEN PopupCatch(pp)
      ELSE [showPopupProgress(showResult(pp)) EXCEPT !.pc = "createZip"]

\* from the settling of createZip to the end
AfterCreateZip(pp, zip, download) ==
  IF zip = "throws" \/ download = "throws" THEN PopupCatch(showPopupProgress(pp))
  ELSE LET warnings == pp.result.warnings
       IN  PopupEnds(setButtonState(
                       setStatus(hidePopupProgress(downloadBlob(showPopupProgress(pp))),
                                 IF "warnings" \in pp.result.fields /\ Len(warnings) > 0
                                   THEN "warning" ELSE "ready"),
                       TRUE, "Extract Conversation"),
                     "downloaded")

\* the responses a content script may give to the popup
PopupResponses ==
  {NoResult, ConvFailure(<<"No conversation found">>),
   [ConvFailure(<<>>) EXCEPT !.fields = {"success"}],
   [ConvSuccess(NoData, <<>>, <<>>) EXCEPT !.fields = {"success"}],
   ConvSuccess(NoData, <<>>, <<>>),
   ConvSuccess(NoData, <<>>, <<ScrollWarning("advisory")>>)}

\* The user clicks the Extract button; a disabled button gives no click.
PopupClick ==
  /\ popup.pc = "idle"
  /\ ~popup.disabled
  /\ popup.clicks < MaxClicks
  /\ popup' = handleExtract(popup)
  /\ UNCHANGED <<page, call>>

\* The tab query issued when the popup loaded answers.
PopupLoadChecked ==
  /\ ~popup.loadChecked
  /\ \E tab \in Tabs :
       popup' = [(IF NotGemini(tab)
                    THEN setButtonState(setStatus(popup, "warning"), FALSE,
                                        "Extract Conversation")
                    ELSE popup) EXCEPT !.loadChecked = TRUE]
  /\ UNCHANGED <<page, call>>

TabsQueried ==
  /\ popup.pc = "tabsQuery"
  /\ \E tab \in Tabs : popup' = AfterTabsQuery(popup, tab)
  /\ UNCHANGED <<page, call>>

TabsQueryRejected ==
  /\ popup.pc = "tabsQuery"
  /\ popup' = PopupCatch(popup)
  /\ UNCHANGED <<page, call>>

MessageAnswered ==
  /\ popup.pc = "sendMessage"
  /\ \E lastError \in BOOLEAN, response \in PopupResponses :
       /\ lastError => response = NoResult
       /\ popup' = AfterSendMessage(popup, lastError, response)
  /\ UNCHANGED <<page, call>>

ZipSettled ==
  /\ popup.pc = "createZip"
  /\ \E zip \in {"ok", "throws"}, download \in {"ok", "throws"} :
       popup' = AfterCreateZip(popup, zip, download)
  /\ UNCHANGED <<page, call>>

(***************************************************************************)
(* Initial pages.                                                          *)
(***************************************************************************)
RECURSIVE SeqsUpTo(_, _)
SeqsUpTo(S, n) ==
  IF n = 0 THEN {<<>>}
  ELSE LET shorter == SeqsUpTo(S, n - 1)
       IN  shorter \cup {Append(q, x) : q \in {r \in shorter : Len(r) = n - 1}, x \in S}

Page(l, d, streaming, u, budget) ==
  [layout |-> l, doc |-> d, streaming |-> streaming,
   scrollTop |-> IF RegionScrolls([layout |-> l, doc |-> d]) THEN u * scrollStep ELSE 0,
   clicks |-> [k \in 1..Len(l.controls) |-> 0],
   progressElement |-> FALSE, loading |-> FALSE, hostBudget |-> budget]

(***************************************************************************)
(* Specification of the scroll loader alone: one call of                   *)
(* scrollToLoadAllMessages against a host that may render, recycle and     *)
(* re-anchor at every suspension.                                          *)
(***************************************************************************)
ScrollLayouts ==
  {Layout("scrollable", TRUE, FALSE, FALSE, <<Control(TRUE, FALSE, TRUE)>>),
   Layout("none", TRUE, FALSE, FALSE, <<>>),
   Layout("none", FALSE, FALSE, FALSE, <<>>)}

InitScroll ==
  /\ \E l \in ScrollLayouts, d \in SeqsUpTo(HostElems, MaxMsgs), u \in 0..MaxScrollUnits :
       page = Page(l, d, FALSE, u, Unbounded)
  /\ call = [c \in Calls |-> IdleCall]
  /\ popup = PopupOpened

NextScroll ==
  \/ CallScroll(1)
  \/ ScrollDelayElapsed(1)
  \/ StabilityDelayElapsed(1)
  \/ Host

SpecScroll == InitScroll /\ [][NextScroll]_vars

(***************************************************************************)
(* Specification of scrollToLoadAllMessages called with and without a      *)
(* progress callback, the callback returning or throwing.                  *)
(***************************************************************************)
ProgressCallbacks == {"none", "returns", "throws"}

InitProgress ==
  /\ \E l \in ScrollLayouts, d \in SeqsUpTo(HostElems, MaxMsgs), u \in 0..MaxScrollUnits :
       page = Page(l, d, FALSE, u, Unbounded)
  /\ \E cb \in ProgressCallbacks :
       call = [c \in Calls |-> [IdleCall EXCEPT !.onProgress = cb]]
  /\ popup = PopupOpened

SpecProgress == InitProgress /\ [][NextScroll]_vars

(***************************************************************************)
(* Specification of the observing loader: two callers invoke it, again and *)
(* again, their invocations overlap, and any iteration may throw.          *)
(***************************************************************************)
InitObserving ==
  /\ \E l \in ScrollLayouts, d \in SeqsUpTo(HostElems, MaxMsgs), u \in 0..MaxScrollUnits :
       page = Page(l, d, FALSE, u, Unbounded)
  /\ call = [c \in Calls |-> IdleCall]
  /\ popup = PopupOpened

\* the callers of the loader: two, so that their invocations overlap
ObservingCallers == {1, 2}

NextObserving ==
  \/ \E c \in ObservingCallers : CallObserving(c)
  \/ \E c \in ObservingCallers : ObserveSettleElapsed(c)
  \/ \E c \in ObservingCallers : LoadingPollElapsed(c)
  \/ Host
  \/ HostLoading

SpecObserving == InitObserving /\ [][NextObserving]_vars

(***************************************************************************)
(* Specification of extractTurns alone, on every small document and on a   *)
(* document long enough for the loop to yield.                             *)
(***************************************************************************)
Elements ==
  {Elem("roleUser", <<"Hello">>, <<>>, <<>>),
   Elem("roleModel", <<"Hi">>, <<"T1">>, <<HttpsUrl>>),
   Elem("userQuery", <<"Q">>, <<>>, <<DataGood>>),
   Elem("modelResponse", <<"A">>, <<"T1", "T2">>, <<>>),
   Elem("roleModel", <<"A", CodeRegion>>, <<"T1">>, <<>>),
   Elem("convContainer", <<"Q", "A">>, <<>>, <<>>),
   Elem("convContainerUser", <<"Hello">>, <<>>, <<>>),
   Elem("convContainerModel", <<"A">>, <<"T1">>, <<>>),
   Elem("convTurn", <<>>, <<>>, <<>>),
   Elem("bothContainers", <<"Q">>, <<>>, <<>>)}

\* TURN_BATCH_SIZE + 2 elements, the last with an image: the shortest
\* document whose extraction yields with an element still to come
LongDoc ==
  [k \in 1..(TURN_BATCH_SIZE + 2) |->
     Elem("roleUser", <<"Hello">>, <<>>, IF k = TURN_BATCH_SIZE + 2 THEN <<HttpsUrl>> ELSE <<>>)]

GeminiLayout == Layout("scrollable", TRUE, FALSE, FALSE, <<>>)

InitTurns ==
  /\ \E d \in SeqsUpTo(Elements, MaxElems) \cup {LongDoc} :
       page = Page(GeminiLayout, d, FALSE, 0, 0)
  /\ call = [c \in Calls |-> IdleCall]
  /\ popup = PopupOpened

NextTurns ==
  \/ \E c \in Calls : CallTurns(c)
  \/ \E c \in Calls : TurnsYieldElapsed(c)

SpecTurns == InitTurns /\ [][NextTurns]_vars

(***************************************************************************)
(* Specification of extractImages alone, on the turns of documents whose   *)
(* two messages carry every short list of locators, and of one document    *)
(* with more inline images than a batch holds.                             *)
(***************************************************************************)
MaxImgs == 2

ManyInline ==
  [k \in 1..(BATCH_SIZE + 1) |-> IF k % 2 = 1 THEN DataGood ELSE DataMalformed]

\* one image more than a batch holds, each needing a network read
ManyRemote == [k \in 1..(BATCH_SIZE + 1) |-> HttpsUrl]

ImageDocs ==
  {<<Elem("roleUser", <<"Q">>, <<>>, im1), Elem("roleModel", <<"A">>, <<>>, im2)>> :
     im1 \in SeqsUpTo(Locators, MaxImgs), im2 \in SeqsUpTo(Locators, 1)}
  \cup {<<Elem("roleUser", <<"Q">>, <<>>, ManyInline)>>}

InitImages ==
  /\ \E d \in ImageDocs : page = Page(GeminiLayout, d, FALSE, 0, 0)
  /\ call = [c \in Calls |-> IdleCall]
  /\ popup = PopupOpened

NextImages ==
  \/ CallImages(1)
  \/ ReadSettled(1)

SpecImages == InitImages /\ [][NextImages]_vars

(***************************************************************************)
(* Specification of extractImages on documents with more images than a     *)
(* batch holds, against a network that answers every read or fails it.     *)
(***************************************************************************)
InitBatches ==
  /\ \E ims \in {ManyRemote, ManyInline} :
       page = Page(GeminiLayout, <<Elem("roleModel", <<"A">>, <<>>, ims)>>, FALSE, 0, 0)
  /\ call = [c \in Calls |-> IdleCall]
  /\ popup = PopupOpened

NextBatches ==
  \/ CallImages(1)
  \/ ReadSettledWith(1, {"ok", "throws"})

SpecBatches == InitBatches /\ [][NextBatches]_vars

(***************************************************************************)
(* Specification of extractImages run with every small batch size (1 is    *)
(* the sequential pipeline) and with BATCH_SIZE, the reads of a batch      *)
(* settling in every order.                                                *)
(***************************************************************************)
MaxBatch == 2

BatchSizes == 1..MaxBatch \cup {BATCH_SIZE}

InitBatchSizes ==
  /\ \E d \in ImageDocs : page = Page(GeminiLayout, d, FALSE, 0, 0)
  /\ \E b \in BatchSizes : call = [c \in Calls |-> [IdleCall EXCEPT !.batchSize = b]]
  /\ popup = PopupOpened

SpecBatchSizes == InitBatchSizes /\ [][NextImages]_vars

(***************************************************************************)
(* Specification of extractConversation against a host that never rests:   *)
(* one call, the host free to render, recycle and re-anchor at every       *)
(* suspension, so that the loader can both complete and reach its ceiling. *)
(***************************************************************************)
InitConvFree ==
  /\ \E l \in ScrollLayouts, d \in SeqsUpTo(HostElems, MaxMsgs), u \in 0..MaxScrollUnits :
       page = Page(l, d, FALSE, u, Unbounded)
  /\ call = [c \in Calls |-> IdleCall]
  /\ popup = PopupOpened

NextConvFree ==
  \/ CallConversation(1)
  \/ ScrollDelayElapsed(1)
  \/ StabilityDelayElapsed(1)
  \/ ExpandDelayElapsed(1)
  \/ SettleDelayElapsed(1)
  \/ ReadSettled(1)
  \/ Host

SpecConvFree == InitConvFree /\ [][NextConvFree]_vars

(***************************************************************************)
(* Specification of the content script: messages reach the listener, the   *)
(* calls they start overlap, and the host changes the page a bounded       *)
(* number of times.                                                        *)
(***************************************************************************)
MaxHostEvents == 1

Docs ==
  {<<>>,
   <<Elem("roleUser", <<"Hello">>, <<>>, <<>>)>>,
   <<Elem("convTurn", <<>>, <<>>, <<>>)>>,
   <<Elem("userQuery", <<"Q">>, <<>>, <<DataGood>>),
     Elem("modelResponse", <<"A">>, <<"T1", "T2">>, <<HttpsUrl>>)>>,
   <<Elem("roleUser", <<"Hello">>, <<>>, <<DataMalformed>>),
     Elem("roleModel", <<"Hi">>, <<"T1">>, <<>>)>>,
   LongDoc}

Init ==
  /\ \E l \in Layouts, d \in Docs, streaming \in BOOLEAN, u \in 0..MaxScrollUnits,
        budget \in {0, MaxHostEvents} :
       page = Page(l, d, streaming, u, IF d = LongDoc THEN 0 ELSE budget)
  /\ call = [c \in Calls |-> IdleCall]
  /\ popup = PopupOpened

Next ==
  \/ \E c \in Calls : Deliver(c)
  \/ \E c \in Calls : ScrollDelayElapsed(c)
  \/ \E c \in Calls : StabilityDelayElapsed(c)
  \/ \E c \in Calls : ExpandDelayElapsed(c)
  \/ \E c \in Calls : SettleDelayElapsed(c)
  \/ \E c \in Calls : TurnsYieldElapsed(c)
  \/ \E c \in Calls : ReadSettled(c)
  \/ \E c \in Calls : ReaderLoad(c)
  \/ \E c \in Calls : ReaderError(c)
  \/ \E c \in Calls : PhaseThrows(c)
  \/ Host

Spec == Init /\ [][Next]_vars

(***************************************************************************)
(* Specification of the popup: the user clicks Extract, the active tab is  *)
(* any tab, the content script answers anything or the channel fails, and  *)
(* the zip and the download succeed or throw.                              *)
(***************************************************************************)
InitPopup ==
  /\ page = Page(GeminiLayout, <<>>, FALSE, 0, 0)
  /\ call = [c \in Calls |-> IdleCall]
  /\ popup = PopupOpened

NextPopup ==
  \/ PopupClick
  \/ PopupLoadChecked
  \/ TabsQueried
  \/ TabsQueryRejected
  \/ MessageAnswered
  \/ ZipSettled

SpecPopup == InitPopup /\ [][NextPopup]_vars

(***************************************************************************)
(* Properties of the scroll loader                                         *)
(***************************************************************************)
\* C5: completion (completed=true, no advisory) is reported only when the
\* scroll region is at offset 0 and no structural mutation of its subtree was
\* recorded during the last two iterations.
C5_CompleteOnlyAtStartAndQuiet ==
  [][\A c \in Calls :
       (call[c].obsExit = "none" /\ call'[c].obsExit = "stable")
         => /\ page.scrollTop = 0
            /\ ~call[c].obsMutCur
            /\ ~call[c].obsMutPrev]_vars

\* C6: an iteration (below the ceiling) during which a structural mutation
\* was recorded ends with the no-movement counter reset and the loader going
\* on to another iteration.
C6_MutationResetsCounter ==
  [][\A c \in Calls :
       (/\ call[c].pc = "scrollSleep"
        /\ call[c].obsMutCur
        /\ call[c].scrollAttempts < maxScrollAttempts
        /\ call'[c] # call[c])
         => (call'[c].stableCount = 0 /\ call'[c].pc = "scrollSleep")]_vars

\* What is left of the loader's run: two per iteration still allowed, one
\* more while the iteration has not reached its stability delay.
ScrollVariant(me) ==
  2 * (maxScrollAttempts - me.scrollAttempts) + (IF me.pc = "scrollSleep" THEN 1 ELSE 0)

\* A step of the loader of call c.
Locals(me) == [me EXCEPT !.obsMutCur = FALSE, !.obsMutPrev = FALSE, !.obsStill = FALSE]

LoaderStep(c) == InScrollLoop(c) /\ Locals(call'[c]) # Locals(call[c])

\* C7: the loader never performs more than maxScrollAttempts iterations; a
\* suspended loader always has its timer to wake it, and every step it takes
\* either returns or uses up part of what the ceiling leaves it, whatever the
\* host does; the exit at the ceiling is a normal return with success and the
\* advisory.
C7_CeilingBoundsIterations ==
  /\ [](\A c \in Calls :
          /\ call[c].scrollAttempts <= maxScrollAttempts
          /\ InScrollLoop(c) => ENABLED (ScrollDelayElapsed(c) \/ StabilityDelayElapsed(c))
          /\ call[c].obsExit = "ceiling" =>
               /\ call[c].scrollResult.success
               /\ call[c].scrollResult.error = ""
               /\ call[c].scrollResult.warning = CeilingWarning
               /\ call[c].scrollResult.scrollAttempts = maxScrollAttempts)
  /\ [][\A c \in Calls :
          LoaderStep(c) =>
            \/ call'[c].obsExit # "none"
            \/ /\ InScrollLoop(c)'
               /\ ScrollVariant(call'[c]) < ScrollVariant(call[c])]_vars

C7_Witness ==
  \E c \in Calls :
    /\ call[c].entry = "scrollToLoadAllMessages"
    /\ call[c].obsExit = "ceiling"
    /\ call[c].pc = "done"
    /\ page.hostBudget = Unbounded

(***************************************************************************)
(* Properties of the message listener                                      *)
(***************************************************************************)
\* Something call c is suspended on is still to fire: a timer, a network
\* read of the current batch, or the load of a FileReader.  (The guards of
\* the actions a handler of call c runs in.)
HasPendingEvent(c) ==
  \/ call[c].pc \in {"scrollSleep", "scrollStability", "expandSleep", "settleSleep",
                     "turnsYield"}
  \/ /\ call[c].pc = "imagesAwait"
     /\ \E k \in 1..Len(call[c].reads) : ~call[c].reads[k].settled
  \/ /\ call[c].pc = "readersAwait"
     /\ \E k \in 1..Len(call[c].readers) : call[c].readers[k] = "reading"

\* C1: a request with action 'extract' is answered once: sendResponse is
\* never called twice, the listener returns true, and while no response has
\* been sent the call still awaits an event whose handler leads to one; any other
\* request is never answered and the listener does not return true.
C1_ExactlyOneResponse ==
  \A c \in Calls :
    /\ call[c].request = "extract" =>
         /\ Len(call[c].responses) <= 1
         /\ call[c].returned = "true"
         /\ Len(call[c].responses) = 0 => HasPendingEvent(c)
    /\ call[c].request = "unknown" =>
         /\ call[c].responses = <<>>
         /\ call[c].returned # "true"

(***************************************************************************)
(* Properties of the image pipeline                                        *)
(***************************************************************************)
\* the positions <<turn, attachment>> of the attachments of turns
AttachmentPositions(turns) ==
  UNION {{<<t, a>> : a \in 1..Len(turns[t].attachments)} : t \in 1..Len(turns)}

AttachmentAt(turns, p) == turns[p[1]].attachments[p[2]]

\* M: the image locators the attachments carry
LocatorPositions(turns) ==
  {p \in AttachmentPositions(turns) : AttachmentAt(turns, p).originalSrc # NoSrc}

\* the inline payloads among them that do not decode
BadInlinePositions(turns) ==
  {p \in LocatorPositions(turns) :
     /\ AttachmentAt(turns, p).originalSrc.scheme = "data"
     /\ AttachmentAt(turns, p).originalSrc.form # "good"}

\* C2: extractImages always resolves: it is suspended only on a batch with a
\* read still to settle, and when it has returned, with M locators of which F
\* failed (a payload that does not decode, a non-success status, a thrown
\* network error), errors holds exactly F records and images exactly M - F.
C2_FailOpen ==
  \A c \in Calls :
    call[c].entry = "extractImages" =>
      /\ call[c].pc \in {"imagesAwait", "done"}
      /\ call[c].pc = "imagesAwait" =>
           \E k \in 1..Len(call[c].reads) : ~call[c].reads[k].settled
      /\ call[c].pc = "done" =>
           LET M == Cardinality(LocatorPositions(call[c].turns))
               F == Cardinality(BadInlinePositions(call[c].turns)) + call[c].obsFailed
           IN  /\ Len(call[c].errors) = F
               /\ Len(call[c].images) = M - F
               /\ \A k \in 1..Len(call[c].errors) : ~call[c].errors[k].blob
               /\ \A k \in 1..Len(call[c].images) : call[c].images[k].blob

C2_Witness ==
  \E c \in Calls :
    /\ call[c].entry = "extractImages"
    /\ call[c].pc = "done"
    /\ call[c].obsFailed >= 1
    /\ BadInlinePositions(call[c].turns) # {}
    /\ Len(call[c].images) >= 1
    /\ Len(call[c].errors) >= 2

\* C10: at every point of extractImages and after it, no attachment has both
\* a filename and an error.
C10_FilenameXorError ==
  \A c \in Calls :
    \A p \in AttachmentPositions(call[c].turns) :
      ~(/\ AttachmentAt(call[c].turns, p).filename # NoFilename
        /\ AttachmentAt(call[c].turns, p).error # NoError)

C10_Witness ==
  \E c \in Calls :
    /\ call[c].entry = "extractImages"
    /\ call[c].pc = "done"
    /\ \E p \in AttachmentPositions(call[c].turns) :
         /\ AttachmentAt(call[c].turns, p).filename # NoFilename
         /\ AttachmentAt(call[c].turns, p).error = NoError
    /\ \E p \in AttachmentPositions(call[c].turns) :
         /\ AttachmentAt(call[c].turns, p).error # NoError
         /\ AttachmentAt(call[c].turns, p).filename = NoFilename

(***************************************************************************)
(* Properties of the turn extractor                                        *)
(***************************************************************************)
\* the positions in d of the elements extractTurns matches: those matching
\* the allMessages pattern, or, when none does, those matching a role pattern
MatchedPositions(d) ==
  IF \E i \in 1..Len(d) : MatchesAllMessages(d[i])
    THEN {i \in 1..Len(d) : MatchesAllMessages(d[i])}
    ELSE {i \in 1..Len(d) : MatchesUserMessage(d[i]) \/ MatchesAssistantMessage(d[i])}

\* the k-th of them in document order
MatchedAt(d, k) ==
  CHOOSE p \in MatchedPositions(d) :
    Cardinality({q \in MatchedPositions(d) : q < p}) = k - 1

\* C4: extractTurns returns one turn per matched element, in document order:
\* the turn at position k (from 0) has index k and is made from the k-th
\* matched element, and an element with no text and no images yields a turn
\* with empty content and no attachments.
C4_OneTurnPerElement ==
  \A c \in Calls :
    (call[c].entry = "extractTurns" /\ call[c].pc = "done") =>
      /\ Len(call[c].turns) = Cardinality(MatchedPositions(page.doc))
      /\ \A k \in 1..Len(call[c].turns) :
           LET turn == call[c].turns[k]
               e == page.doc[MatchedAt(page.doc, k)]
           IN  /\ turn.index = k - 1
               /\ turn.role = (IF MatchesUserMessage(e) THEN "user" ELSE "assistant")
               /\ Len(turn.attachments) = Len(e.imgs)
               /\ (e.text = <<>> /\ e.thoughts = <<>>) => turn.content = <<>>
               /\ e.text # <<>> => turn.content # <<>>

(***************************************************************************)
(* Properties of extractConversation                                       *)
(***************************************************************************)
\* no element of d matches the user pattern or the assistant pattern
NoRoleMarkers(d) ==
  \A i \in 1..Len(d) : ~MatchesUserMessage(d[i]) /\ ~MatchesAssistantMessage(d[i])

\* no element of d matches the allMessages, the user or the assistant pattern
NoMessageStructure(d) ==
  \A i \in 1..Len(d) :
    ~MatchesAllMessages(d[i]) /\ ~MatchesUserMessage(d[i]) /\ ~MatchesAssistantMessage(d[i])

\* the result is a failure: success=false, an error text, nothing else
IsFailure(result) ==
  /\ result.fields = {"success", "error"}
  /\ ~result.success
  /\ Len(result.error) > 0
  /\ result.data = NoData
  /\ result.images = <<>>

ScrollIncomplete(me) == me.obsExit \in {"ceiling", "noRegion"}

\* C8: in a successful result partialSuccess is true exactly when
\* extractionErrors is not empty or the scroll loader did not complete.
C8_PartialIff ==
  \A c \in Calls :
    call[c].result.success =>
      LET metadata == call[c].result.data.metadata
      IN  /\ call[c].obsExit # "none"
          /\ metadata.partialSuccess <=>
               (Len(metadata.extractionErrors) > 0 \/ ScrollIncomplete(call[c]))

C8_Witness ==
  \E c \in Calls :
    /\ call[c].result.success
    /\ call[c].obsExit = "ceiling"
    /\ call[c].result.data.metadata.extractionErrors = <<>>
    /\ call[c].result.data.metadata.imageCount >= 1
    /\ call[c].result.data.metadata.partialSuccess

\* C9: once the preconditions hold and the scroll loader has returned,
\* however it returned, extractConversation goes through expansion, turn
\* extraction and the image pipeline and returns success=true with the turns
\* extracted; after an exit at the ceiling the advisory is among the warnings
\* and the result is marked partial.
C9_ScrollNeverGates ==
  \A c \in Calls :
    (call[c].entry = "extractConversation" /\ call[c].obsExit # "none") =>
      /\ call[c].pc \in {"expandSleep", "settleSleep", "turnsYield", "imagesAwait", "done"}
      /\ call[c].pc = "done" =>
           /\ call[c].result.success
           /\ call[c].obsTurnsRun
           /\ call[c].result.data.turns = call[c].turns
           /\ call[c].result.data.metadata.turnCount = Len(MessageElements(page.doc))
           /\ call[c].obsExit = "ceiling" =>
                /\ \E k \in 1..Len(call[c].result.warnings) :
                     call[c].result.warnings[k] = ScrollWarning(CeilingWarning)
                /\ call[c].result.data.metadata.partialSuccess

C9_Witness ==
  \E c \in Calls :
    /\ call[c].entry = "extractConversation"
    /\ call[c].pc = "done"
    /\ call[c].obsExit = "ceiling"
    /\ call[c].result.success
    /\ Len(call[c].result.data.turns) >= 1

(***************************************************************************)
(* Properties of the observing loader                                      *)
(***************************************************************************)
InObservingLoop(c) == call[c].pc \in {"observeSettle", "loadingPoll"}

\* C11: a caller's loader holds at most one mutation subscription at a time,
\* and holds none unless an invocation is suspended inside its loop: after
\* the loader returned (quiet, ceiling, no region) or threw, and when it is
\* invoked again, no subscription is left.
C11_SubscriptionReleased ==
  \A c \in Calls :
    /\ call[c].observers <= 1
    /\ ~InObservingLoop(c) => call[c].observers = 0

\* one caller's invocation has thrown and holds nothing, while the other
\* caller's invocation is suspended after its first scroll, holding its
\* subscription
C11_Witness ==
  \E c, o \in Calls :
    /\ call[c].pc = "done" /\ call[c].obsExit = "threw" /\ call[c].observers = 0
    /\ InObservingLoop(o) /\ call[o].observers = 1
    /\ call[o].scrollAttempts = 1 /\ call[o].lastScrollTop # 0

(***************************************************************************)
(* Properties of the orchestrator                                          *)
(***************************************************************************)
PreconditionFails(pg) == isStreaming(pg) \/ ~validateSelectors(pg).valid

\* C12: an extraction that starts while the host is generating, or on a
\* page without the required structure, ends in the step that starts it: it
\* leaves the page as it was (scroll offset, clicks, progress indicator),
\* issues no read, and answers once, with success false and an error text.
C12_PreconditionFailureNoEffect ==
  [][\A c \in Calls :
       (/\ call[c].pc = "idle" /\ call'[c].pc # "idle"
        /\ call'[c].request = "extract"
        /\ PreconditionFails(page))
       => /\ page' = page
          /\ call'[c].pc = "done"
          /\ call'[c].reads = <<>> /\ call'[c].obsReads = 0
          /\ call'[c].scrollAttempts = 0 /\ call'[c].expandedCount = 0
          /\ Len(call'[c].responses) = 1
          /\ call'[c].responses[1].fields = {"success", "error"}
          /\ ~call'[c].responses[1].success
          /\ call'[c].responses[1].error
               \in {StreamingError, MissingSelectorsError(<<"messages">>),
                    MissingSelectorsError(<<"conversationContainer">>),
                    MissingSelectorsError(<<"conversationContainer", "messages">>)}]_vars

\* a request failed on a page whose messages the host had removed, while an
\* earlier request is still at work and shows its progress indicator
C12_Witness ==
  \E c, o \in Calls :
    /\ call[c].pc = "done"
    /\ call[c].responses = <<ConvFailure(MissingSelectorsError(<<"messages">>))>>
    /\ Suspended(o) /\ page.progressElement /\ page.scrollTop = 0
    /\ call[o].scrollAttempts > 0

\* C13: an exception raised in any phase of an extraction is caught: the
\* call does not reject, it returns {success: false, error} with the text
\* "Extraction failed: " and the exception's message, and the listener
\* answers with it.
C13_ThrowsAreCaught ==
  \A c \in Calls :
    call[c].obsThrew # "none" =>
      /\ call[c].pc = "done"
      /\ call[c].result = ConvFailure(<<"Extraction failed: ", call[c].obsThrew>>)
      /\ call[c].result.fields = {"success", "error"}
      /\ ~call[c].result.success /\ Len(call[c].result.error) > 0
      /\ call[c].responses = <<call[c].result>>

\* one request failed in image acquisition, after its reads were issued, and
\* the other in expansion
C13_Witness ==
  \E c, o \in Calls :
    /\ call[c].obsThrew = "image acquisition" /\ call[c].obsReads > 0
    /\ Len(call[c].responses) = 1 /\ ~call[c].responses[1].success
    /\ call[o].obsThrew = "expansion" /\ call[o].expandedCount > 0

\* the call is suspended between two index assignments of its pass
TurnPassOpen(c) ==
  call[c].obsTurnsRun /\ Len(call[c].turns) < Len(call[c].messageElements)

\* the order of the phases of one call: nothing of the turn pass before the
\* scroll loader has returned, nothing of the image pipeline before the
\* last turn is extracted
PhaseOrder(c) ==
  LET me == call[c]
      noImageWork == me.reads = <<>> /\ me.obsReads = 0 /\ me.images = <<>> /\ me.errors = <<>>
  IN  /\ me.pc \in {"scrollSleep", "scrollStability"} =>
           ~me.obsTurnsRun /\ me.turns = <<>> /\ me.obsExit = "none" /\ noImageWork
      /\ me.obsTurnsRun => me.obsExit # "none"
      /\ me.pc \in {"expandSleep", "settleSleep"} =>
           ~me.obsTurnsRun /\ me.turns = <<>> /\ noImageWork
      /\ me.pc = "turnsYield" => noImageWork
      /\ me.pc = "imagesAwait" =>
           /\ Len(me.turns) = Len(me.messageElements)
           /\ \A k \in 1..Len(me.turns) : me.turns[k].index = k - 1

\* C14: the phases of an extraction never interleave, and no extraction is
\* ever suspended between the first and the last index assignment of its
\* turn pass.
C14_SinglePassAfterScroll ==
  \A c \in Calls : ConvInFlight(c) => PhaseOrder(c) /\ ~TurnPassOpen(c)

\* C14, as amended: the phases of an extraction never interleave, and an
\* extraction is suspended inside its turn pass only just after an element
\* whose index is a positive multiple of TURN_BATCH_SIZE.
C14_BatchedPassAfterScroll ==
  \A c \in Calls :
    ConvInFlight(c) =>
      /\ PhaseOrder(c)
      /\ TurnPassOpen(c) =>
           /\ call[c].pc = "turnsYield"
           /\ call[c].i > 0 /\ call[c].i % TURN_BATCH_SIZE = 0
           /\ Len(call[c].turns) = call[c].i + 1

\* one extraction waits for its image read after a pass that yielded, while
\* another is suspended inside its pass
C14_Witness ==
  \E c, o \in Calls :
    /\ ConvInFlight(c) /\ call[c].pc = "imagesAwait"
    /\ Len(call[c].turns) = TURN_BATCH_SIZE + 2
    /\ ConvInFlight(o) /\ TurnPassOpen(o)

(***************************************************************************)
(* Properties of the batches of the image pipeline                         *)
(***************************************************************************)
\* the reads of call c that have been started and have not settled
InFlight(c) == {k \in 1..Len(call[c].reads) : ~call[c].reads[k].settled}

Recorded(c) == Len(call[c].images) + Len(call[c].errors)

\* C15: of the reads extractImages has started, all but those of the
\* current batch are settled and recorded: a batch starts only when every
\* earlier read has settled, and at most BATCH_SIZE reads are in flight.
C15_BatchBarrier ==
  \A c \in Calls :
    /\ Cardinality(InFlight(c)) <= BATCH_SIZE
    /\ call[c].obsStarted - Recorded(c) <= BATCH_SIZE
    /\ call[c].obsStarted - Recorded(c) \in {0, Len(call[c].reads)}
    /\ call[c].obsStarted > BATCH_SIZE => Recorded(c) >= BATCH_SIZE

\* BATCH_SIZE reads are in flight and one more image waits for its batch
C15_Witness ==
  \E c \in Calls :
    /\ Cardinality(InFlight(c)) = BATCH_SIZE
    /\ Len(call[c].imageSources) = BATCH_SIZE + 1
    /\ call[c].obsStarted = BATCH_SIZE

\* extractImages with batch size 1: one image after the other, each read
\* settling as outcomes says
RECURSIVE Sequential(_, _, _, _)
Sequential(me, sources, outcomes, k) ==
  IF k > Len(sources) THEN me
  ELSE Sequential(RecordResult(me, sources[k],
                               fetchImage(sources[k].src, sources[k].turnIndex,
                                          me.imageIndex, outcomes[k])),
                  sources, outcomes, k + 1)

\* C16: whatever the batch size and the order in which the reads of a batch
\* settle, extractImages returns what the sequential pipeline returns for
\* the same outcome of every read: the same images and failure records in
\* the same order, the same filenames and errors on the attachments.
C16_BatchSizeIrrelevant ==
  \A c \in Calls :
    (call[c].entry = "extractImages" /\ call[c].pc = "done") =>
      LET turns0 == AllTurns(page.doc)
          ref == Sequential([images |-> <<>>, errors |-> <<>>, imageIndex |-> 1,
                             turns |-> turns0],
                            ImageSources(turns0, 1), call[c].obsOutcomes, 1)
      IN  /\ call[c].images = ref.images
          /\ call[c].errors = ref.errors
          /\ call[c].turns = ref.turns

\* a run with batches of two over three images, the second read failing
\* after the first of the next batch could not have started
C16_Witness ==
  \E c \in Calls :
    /\ call[c].entry = "extractImages" /\ call[c].pc = "done"
    /\ call[c].batchSize = 2 /\ Len(call[c].imageSources) = 3
    /\ call[c].obsOutcomes = <<"ok", "throws", "ok">>
    /\ call[c].obsReads = 3
    /\ Len(call[c].images) = 2 /\ Len(call[c].errors) = 1

\* the image sources of call c that need a network read
RemoteSources(c) ==
  {k \in 1..Len(call[c].imageSources) : ~IsDataUrl(call[c].imageSources[k].src)}

\* C17: in one call no image locator is read twice, an inline payload is
\* never read from the network, and when extractImages has returned every
\* other locator has been read exactly once, whatever the outcome: the
\* network reads number the non-inline locators.
C17_NoRetry ==
  \A c \in Calls :
    /\ \A k \in 1..Len(call[c].obsReadsOf) :
         /\ call[c].obsReadsOf[k] <= 1
         /\ k \notin RemoteSources(c) => call[c].obsReadsOf[k] = 0
    /\ call[c].obsReads <= Cardinality(RemoteSources(c))
    /\ (call[c].entry = "extractImages" /\ call[c].pc = "done") =>
         /\ \A k \in RemoteSources(c) : call[c].obsReadsOf[k] = 1
         /\ call[c].obsReads = Cardinality(RemoteSources(c))

\* three reads, each failed, none repeated
C17_Witness ==
  \E c \in Calls :
    /\ call[c].entry = "extractImages" /\ call[c].pc = "done"
    /\ call[c].obsReadsOf = <<1, 1, 1>>
    /\ call[c].obsFailed = 3 /\ Len(call[c].errors) = 3

\* C18: while no extraction is in flight the progress indicator is absent
\* (and progressElement is null), and the step in which an extraction that
\* got past its pre-flight checks returns, with a result or with a caught
\* failure, leaves the indicator removed, whatever other extraction is
\* still in flight.
C18_ProgressRemoved ==
  /\ []((\A c \in Calls : ~ConvInFlight(c)) => ~page.progressElement)
  /\ [][\A c \in Calls :
          (ConvInFlight(c) /\ call'[c].pc \in {"done", "readersAwait"})
            => ~page'.progressElement]_vars

\* of two overlapping requests one has failed in turn extraction and one has
\* succeeded after the loader hit the page, and the indicator is gone
C18_Witness ==
  \E c, o \in Calls :
    /\ \A x \in Calls : ~ConvInFlight(x)
    /\ call[c].obsThrew = "turn extraction"
    /\ call[o].pc = "readersAwait" /\ call[o].result.success
    /\ call[o].obsExit = "stable"
    /\ ~page.progressElement

(***************************************************************************)
(* Properties of extractTurns on paired containers                         *)
(***************************************************************************)
\* every element of d is a container holding at most one user section and
\* at most one assistant section
IsPairedDoc(d) == Len(d) > 0 /\ \A k \in 1..Len(d) : d[k].kind \in ContainerKinds

HasUserSection(e) == e.kind \in {"convContainer", "convContainerUser"}

HasAssistantSection(e) == e.kind \in {"convContainer", "convContainerModel"}

\* C19: on a document of N paired containers extractTurns yields at most 2N
\* turns, and for a container that holds both sections a user turn with the
\* text of its user section is followed at once by an assistant turn.
C19_PairedContainers ==
  \A c \in Calls :
    (call[c].entry = "extractTurns" /\ call[c].pc = "done" /\ IsPairedDoc(page.doc)) =>
      LET d == page.doc
          turns == call[c].turns
      IN  /\ Len(turns) <= 2 * Len(d)
          /\ \A k \in 1..Len(d) :
               (HasUserSection(d[k]) /\ HasAssistantSection(d[k])) =>
                 \E j \in 1..(Len(turns) - 1) :
                   /\ turns[j].role = "user"
                   /\ turns[j].content = <<Head(d[k].text)>>
                   /\ turns[j + 1].role = "assistant"
                   /\ turns[j + 1].index = turns[j].index + 1

\* the sections whose role marker says user, and those that say assistant
UserSectionKinds == {"userQuery", "roleUser", "userQueryContainer"}

AssistantSectionKinds == {"modelResponse", "roleModel", "responseContainer"}

\* C20: a turn built from a user section has role user and no thinking, a
\* turn built from an assistant section has role assistant, and a document
\* that is one container holding a user section and no assistant section
\* yields exactly one turn, of role user.
C20_RoleFollowsSection ==
  \A c \in Calls :
    (call[c].entry = "extractTurns" /\ call[c].pc = "done") =>
      LET elems == call[c].messageElements
          turns == call[c].turns
      IN  /\ \A k \in 1..Len(elems) :
               /\ elems[k].kind \in UserSectionKinds =>
                    turns[k].role = "user" /\ turns[k].thinking = NoText
               /\ elems[k].kind \in AssistantSectionKinds =>
                    turns[k].role = "assistant"
          /\ (Len(page.doc) = 1 /\ page.doc[1].kind = "convContainerUser") =>
               Len(turns) = 1 /\ turns[1].role = "user"


(***************************************************************************)
(* C21.  extractTurns is idempotent: two runs against the same document    *)
(* return the same turns (length, indices, roles, content, thinking and    *)
(* attachment locators), whichever ran first and however their segments    *)
(* interleave; the first run leaves nothing behind that the second reads.  *)
(***************************************************************************)
TurnsDone(c) == call[c].entry = "extractTurns" /\ call[c].pc = "done"

\* C21: any two completed runs of extractTurns on the document agree on
\* their turn sequences.
C21_Idempotent ==
  \A c \in Calls, o \in Calls :
    (TurnsDone(c) /\ TurnsDone(o)) => call[c].turns = call[o].turns

\* two runs have completed on a document with a reasoning section, which
\* the earlier run extracted and removed from its copy
C21_Witness ==
  \E c \in Calls, o \in Calls :
    /\ c # o /\ TurnsDone(c) /\ TurnsDone(o)
    /\ \E k \in 1..Len(call[c].turns) :
         /\ call[c].turns[k].role = "assistant"
         /\ ~call[c].turns[k].thinking.null
         /\ call[o].turns[k] = call[c].turns[k]


(***************************************************************************)
(* C22.  With no scrollable region, scrollToLoadAllMessages returns in the *)
(* step of the call: success = false, the advisory text in error, zero     *)
(* scroll attempts; it commands no scroll, shows no progress and suspends  *)
(* nowhere.                                                                *)
(***************************************************************************)
ScrollCalled(c) ==
  /\ call[c].pc = "idle"
  /\ call'[c].pc # "idle"
  /\ call'[c].entry = "scrollToLoadAllMessages"

\* C22: a call of scrollToLoadAllMessages on a page where findScrollContainer
\* finds nothing ends in that step with the soft failure and leaves the page
\* as it was.
C22_NoRegionSoftFailure ==
  [][\A c \in Calls :
       (ScrollCalled(c) /\ findScrollContainer(page) = "null") =>
         /\ call'[c].pc = "done"
         /\ call'[c].obsThrew = "none"
         /\ call'[c].scrollResult.success = FALSE
         /\ call'[c].scrollResult.error # ""
         /\ call'[c].scrollResult.scrollAttempts = 0
         /\ call'[c].scrollResult.messagesLoaded = 0
         /\ page' = page]_vars

\* a call has returned the soft failure on a page that holds messages but no
\* scrollable region
C22_Witness ==
  \E c \in Calls :
    /\ call[c].entry = "scrollToLoadAllMessages"
    /\ call[c].pc = "done"
    /\ call[c].obsExit = "noRegion"
    /\ call[c].scrollResult = ScrollSoftFailure
    /\ findScrollContainer(page) = "null"
    /\ Len(page.doc) > 0


(***************************************************************************)
(* C23.  The number in the filename of a resolved image.  extractImages    *)
(* hands fetchImage the number imageIndex + batchIdx when the read is      *)
(* started and advances imageIndex for failures as for successes, so the   *)
(* number is the position of the image among the images discovered.        *)
(***************************************************************************)
ImagesDone(c) == call[c].entry = "extractImages" /\ call[c].pc = "done"

\* discovery positions of the images that were resolved
Succeeded(c) ==
  {j \in 1..Len(call[c].imageSources) :
     AttachmentAt(call[c].turns, call[c].imageSources[j].at).filename # NoFilename}

\* C23 as stated: the k-th image resolved carries number k, a failure
\* consuming no number.
C23_NumberedBySuccess ==
  \A c \in Calls :
    ImagesDone(c) =>
      \A k \in 1..Len(call[c].images) : call[c].images[k].filename.num = k

\* C23 as amended: the image discovered j-th carries number j if it is
\* resolved, whatever the index of its turn and whether or not the images
\* before it were resolved; so the numbers of the resolved images, taken in
\* discovery order, increase.
C23_NumberedByDiscovery ==
  \A c \in Calls :
    ImagesDone(c) =>
      /\ Len(call[c].images) = Cardinality(Succeeded(c))
      /\ \A j \in Succeeded(c) :
           LET k == Cardinality({i \in Succeeded(c) : i <= j})
           IN  /\ call[c].images[k].filename.num = j
               /\ call[c].images[k].originalSrc = call[c].imageSources[j].src
               /\ call[c].images[k].turnIndex = call[c].imageSources[j].turnIndex
               /\ AttachmentAt(call[c].turns, call[c].imageSources[j].at).filename
                    = call[c].images[k].filename
      /\ \A k \in 1..Len(call[c].images), l \in 1..Len(call[c].images) :
           k < l => call[c].images[k].filename.num < call[c].images[l].filename.num

\* an image of the second turn was resolved after an image before it had
\* failed: its number is neither its rank among the successes nor tied to
\* its turn
C23_Witness ==
  \E c \in Calls :
    /\ ImagesDone(c)
    /\ \E k \in 1..Len(call[c].images) :
         /\ call[c].images[k].filename.num > k
         /\ call[c].images[k].filename.num # call[c].images[k].turnIndex + 1
         /\ call[c].images[k].turnIndex = 1


(***************************************************************************)
(* C24.  A failed image resolution is a value of fetchImage, recorded      *)
(* once.  The reads that fail are the inline payloads that do not parse or *)
(* do not decode and the network reads answered with a non-success status  *)
(* or a thrown error.                                                      *)
(***************************************************************************)
\* discovery positions of the images whose resolution failed, by cause
FailedBy(c, cause) ==
  {j \in 1..Len(call[c].imageSources) :
     LET src == call[c].imageSources[j].src
     IN  CASE cause = "malformed" -> IsDataUrl(src) /\ src.form = "malformed"
           [] cause = "undecodable" -> IsDataUrl(src) /\ src.form = "undecodable"
           [] OTHER -> ~IsDataUrl(src) /\ call[c].obsOutcomes[j] = cause}

FailureCauses == {"malformed", "undecodable", "status", "throws"}

Failed(c) == UNION {FailedBy(c, cause) : cause \in FailureCauses}

Contains(message, piece) == \E i \in 1..Len(message) : message[i] = piece

\* C24: when extractImages has returned, its failure records are, in
\* discovery order, one for each image whose resolution failed, each with
\* the locator, the turn index, a timestamp and the reason: the status code
\* for a non-success status, the message of the error for a thrown one.
C24_FailureRecords ==
  \A c \in Calls :
    ImagesDone(c) =>
      /\ call[c].obsThrew = "none"
      /\ Len(call[c].errors) = Cardinality(Failed(c))
      /\ \A j \in Failed(c) :
           LET k == Cardinality({i \in Failed(c) : i <= j})
               rec == call[c].errors[k]
           IN  /\ rec.type = "image_fetch"
               /\ rec.originalSrc = call[c].imageSources[j].src
               /\ rec.turnIndex = call[c].imageSources[j].turnIndex
               /\ rec.timestamp # ""
               /\ rec.message # NoError
               /\ j \in FailedBy(c, "malformed") => Contains(rec.message, "Invalid data URL format")
               /\ j \in FailedBy(c, "undecodable") => Contains(rec.message, AtobMessage)
               /\ j \in FailedBy(c, "status") => Contains(rec.message, StatusCode)
               /\ j \in FailedBy(c, "throws") => Contains(rec.message, ThrownMessage)

\* one run in which a malformed inline payload, a non-success status and a
\* thrown error each left its record
C24_Witness ==
  \E c \in Calls :
    /\ ImagesDone(c)
    /\ FailedBy(c, "malformed") # {}
    /\ FailedBy(c, "status") # {}
    /\ FailedBy(c, "throws") # {}
    /\ Len(call[c].errors) = 3


(***************************************************************************)
(* C25.  The transcript does not depend on what becomes of the images.     *)
(* The turns are extracted before the first image is read; the image       *)
(* pipeline writes the filename or the error of an attachment and nothing  *)
(* else of a turn.                                                         *)
(***************************************************************************)
\* a turn without what the image pipeline writes
Transcript(turns) ==
  [k \in 1..Len(turns) |->
     [turns[k] EXCEPT !.attachments =
        [a \in 1..Len(@) |-> [@[a] EXCEPT !.filename = NoFilename, !.error = NoError]]]]

\* C25: the turns handed to the image pipeline are those of the document,
\* and an extractConversation that got to the image pipeline and was not
\* interrupted by an exception returns success=true with these turns, their
\* attachments differing in filename and error only, whichever reads failed.
C25_FailuresLeaveTranscript ==
  /\ [](\A c \in Calls :
          (call[c].obsTurnsRun /\ call[c].obsThrew = "none" /\ call[c].result # NoResult) =>
            /\ call[c].result.success
            /\ Transcript(call[c].result.data.turns) = Transcript(call[c].obsTurns)
            /\ Len(call[c].result.data.metadata.extractionErrors)
                 + Len(call[c].result.images) = Len(call[c].imageSources))
  /\ [][\A c \in Calls :
          call'[c].obsTurns # call[c].obsTurns =>
            call'[c].obsTurns = Transcript(AllTurns(page.doc))]_vars

\* a result with success=true for a document of two images, the inline one
\* resolved and the remote one failed: both turns are there, the second with
\* its reasoning text and the error on its attachment
C25_Witness ==
  \E c \in Calls :
    /\ call[c].result # NoResult /\ call[c].result.success
    /\ Len(call[c].result.data.turns) = 2
    /\ Len(call[c].result.images) = 1
    /\ Len(call[c].result.data.metadata.extractionErrors) = 1
    /\ call[c].result.data.metadata.partialSuccess
    /\ call[c].result.data.turns[2].attachments[1].error # NoError
    /\ call[c].result.data.turns[2].thinking = call[c].obsTurns[2].thinking


C27_ReasoningOnlyInThinking ==
  \A c \in Calls :
    TurnsDone(c) =>
      \A k \in 1..Len(call[c].turns) :
        call[c].turns[k].role = "assistant" =>
          \A t \in 1..Len(call[c].messageElements[k].thoughts) :
            ~Contains(call[c].turns[k].content,
                      Fence(call[c].messageElements[k].thoughts[t]))


(***************************************************************************)
(* C28.  The fallback of extractTurns: with no element matching the        *)
(* allMessages pattern, the elements matching the user pattern and those   *)
(* matching the assistant pattern, sorted by document position.            *)
(***************************************************************************)
FallbackTaken(d) == Len(QueryAllMessages(d)) = 0

RoleMatched(d) ==
  {p \in 1..Len(d) : MatchesUserMessage(d[p]) \/ MatchesAssistantMessage(d[p])}

\* C28: in the fallback the nodes walked are the elements matching either
\* role pattern, each once and in document order, and the turns are theirs
\* one for one: index k - 1 at place k, the role that of the element.
C28_FallbackOrder ==
  \A c \in Calls :
    (TurnsDone(c) /\ FallbackTaken(page.doc)) =>
      LET nodes == call[c].messageNodes
      IN  /\ {nodes[k] : k \in 1..Len(nodes)} = RoleMatched(page.doc)
          /\ \A k \in 1..Len(nodes), l \in 1..Len(nodes) : k < l => nodes[k] < nodes[l]
          /\ Len(call[c].turns) = Len(nodes)
          /\ \A k \in 1..Len(call[c].turns) :
               /\ call[c].turns[k].index = k - 1
               /\ call[c].turns[k].role =
                    (IF MatchesUserMessage(page.doc[nodes[k]]) THEN "user" ELSE "assistant")


(***************************************************************************)
(* C29.  Progress reporting and the result of the loader.  reportProgress  *)
(* shows the indicator and calls onProgress, if one was passed, inside the *)
(* loader and with nothing around the call.                                *)
(***************************************************************************)
\* C29: whatever progress callback it was called with, one that throws
\* included, a scrollToLoadAllMessages that has ended has returned a result
\* and has not been aborted by an exception.
C29_ProgressFireAndForget ==
  \A c \in Calls :
    (call[c].entry = "scrollToLoadAllMessages" /\ call[c].pc = "done") =>
      /\ call[c].obsThrew = "none"
      /\ call[c].scrollResult # NoScrollResult
      /\ call[c].obsExit \in {"noRegion", "stable", "ceiling"}


(***************************************************************************)
(* C30.  When the loader stops.  An iteration is still when the offset     *)
(* read after the settle delay is the offset read an iteration earlier     *)
(* (obsStill records it for the iteration before the current one).         *)
(***************************************************************************)
\* the settle delay of call c is about to elapse on a region at the start of
\* history, this iteration and the one before it both still, no structural
\* mutation in the current settle window
TwoStillAtStart(c) ==
  /\ call[c].pc = "scrollSleep"
  /\ call[c].obsStill
  /\ page.scrollTop = 0
  /\ call[c].lastScrollTop = 0
  /\ ~call[c].obsMutCur

\* C30: the iteration that ends in such a state is the last: the loader
\* starts no further iteration, and it reports completion.
C30_StopsAfterTwoStill ==
  [][\A c \in Calls :
       (TwoStillAtStart(c) /\ call'[c] # call[c]) =>
         /\ call'[c].scrollAttempts <= call[c].scrollAttempts
         /\ call'[c].pc # "scrollSleep"
         /\ call'[c].pc = "done" =>
              (call'[c].scrollResult.success
                 /\ call'[c].scrollResult.warning = NoWarning)]_vars


(***************************************************************************)
(* C31.  An iteration of the loader: the offset lowered by scrollStep, a   *)
(* scroll notification dispatched on the region, the settle delay.         *)
(***************************************************************************)
IterationStarts(c) == call'[c].scrollAttempts = call[c].scrollAttempts + 1

\* C31: each step that starts an iteration lowers the offset by scrollStep,
\* not below 0, and dispatches the scroll notification before the loader
\* suspends on the settle delay; the offset changes in no other step of the
\* loader.
C31_ScrollThenNotify ==
  [][\A c \in Calls :
       /\ IterationStarts(c) =>
            /\ page'.scrollTop = Max(0, page.scrollTop - scrollStep)
            /\ call'[c].obsDispatched
            /\ call'[c].pc \in {"scrollSleep", "observeSettle"}
       /\ (call'[c] # call[c] /\ page'.scrollTop # page.scrollTop) => call'[c].obsDispatched]_vars


(***************************************************************************)
(* C32.  The wait on the loading indicator.  MaxLoadingPolls polls of      *)
(* loadingCheckInterval make up maxLoadingWait.                            *)
(***************************************************************************)
\* the loader of call c has gone on past waitForLoadingComplete: into the
\* next iteration, or out by a return
PastLoadingWait(c) ==
  /\ call'[c].pc \in {"observeSettle", "done"}
  /\ call'[c].obsExit \in {"none", "quiet", "ceiling"}

\* a step of the loader of call c, as against a step of the host that its
\* subscription records
ObservingActs(c) ==
  \/ call'[c].pc # call[c].pc
  \/ call'[c].scrollAttempts # call[c].scrollAttempts
  \/ call'[c].loadingPolls # call[c].loadingPolls

NamedAttachments(turns) ==
  {p \in AttachmentPositions(turns) : AttachmentAt(turns, p).filename # NoFilename}

FailedAttachments(turns) ==
  {p \in AttachmentPositions(turns) : AttachmentAt(turns, p).error # NoError}

Succeeded_(c) == call[c].result # NoResult /\ call[c].result.success

\* C33: a successful result has data.messages and metadata.messageCount, the
\* count is the number of messages, imageCount is the number of images
\* returned and of attachments with a filename, and there are as many
\* extractionErrors as attachments with an error.
C33_CountsAgree ==
  \A c \in Calls :
    Succeeded_(c) =>
      LET data == call[c].result.data
      IN  /\ "messages" \in DOMAIN data
          /\ "messageCount" \in DOMAIN data.metadata
          /\ data.metadata.messageCount = Len(data.messages)
          /\ data.metadata.imageCount = Len(call[c].result.images)
          /\ data.metadata.imageCount = Cardinality(NamedAttachments(data.messages))
          /\ Len(data.metadata.extractionErrors)
               = Cardinality(FailedAttachments(data.messages))


(***************************************************************************)
(* C34.  The two shapes of what extractConversation returns.               *)
(***************************************************************************)
Responded(c) == call[c].result # NoResult

PopupInFlight == popup.pc # "idle"

\* C35: the Extract button is disabled while handleExtract is in flight;
\* the step on which handleExtract ends, on whatever path, leaves the button
\* enabled and the progress line hidden; a download starts only on a step
\* of a handleExtract that received a response with success=true.
C35_ButtonAndProgress ==
  /\ [](PopupInFlight => popup.disabled)
  /\ [][/\ (PopupInFlight /\ popup'.pc = "idle") =>
             (~popup'.disabled /\ ~popup'.progressVisible)
        /\ popup'.downloads # popup.downloads =>
             /\ popup'.downloads = popup.downloads + 1
             /\ PopupInFlight
             /\ popup.result.success
             /\ popup.result # NoResult]_vars

\* handleExtract has ended on every path, the last time in the catch
C35_Witness ==
  /\ popup.pc = "idle"
  /\ popup.obsExit = "threw"
  /\ popup.clicks = MaxClicks
  /\ popup.downloads = 1


(***************************************************************************)
(* C36.  Filename numbers, read off the attachments of the turns.  The     *)
(* images discovered are the attachments that carry a locator, in the      *)
(* order of their turns and, inside a turn, of the attachments.            *)
(***************************************************************************)
\* attachment q is discovered no later than attachment p
NoLater(q, p) == q[1] < p[1] \/ (q[1] = p[1] /\ q[2] <= p[2])

\* 1-based position of attachment p among the images discovered
DiscoveryPosition(turns, p) ==
  Cardinality({q \in LocatorPositions(turns) : NoLater(q, p)})

\* C36: the number in the filename of a resolved image is the 1-based
\* position of the image among the images discovered, the failed ones
\* counted; so no two filenames of one extraction carry the same number.
C36_NumberIsDiscoveryPosition ==
  \A c \in Calls :
    ImagesDone(c) =>
      LET turns == call[c].turns
      IN  /\ NamedAttachments(turns) \subseteq LocatorPositions(turns)
          /\ \A p \in NamedAttachments(turns) :
               AttachmentAt(turns, p).filename.num = DiscoveryPosition(turns, p)
          /\ \A p, q \in NamedAttachments(turns) :
               p # q => AttachmentAt(turns, p).filename.num
                          # AttachmentAt(turns, q).filename.num

\* a resolved image discovered after a failed one, numbered past it
C36_Witness ==
  \E c \in Calls :
    /\ ImagesDone(c)
    /\ \E p \in NamedAttachments(call[c].turns), q \in FailedAttachments(call[c].turns) :
         /\ NoLater(q, p)
         /\ AttachmentAt(call[c].turns, p).filename.num = DiscoveryPosition(call[c].turns, p)
         /\ DiscoveryPosition(call[c].turns, p) >= 2


(***************************************************************************)
(* C37.  Validation and the scroll region.  extractConversation runs       *)
(* validateSelectors and the head of scrollToLoadAllMessages in one step,  *)
(* so both see the same document.                                          *)
(***************************************************************************)
FromConversation(c) == call[c].entry \in {"listener", "extractConversation"}

\* C37: on a document validateSelectors reports valid, findScrollContainer
\* does not return null; so no scrollToLoadAllMessages called by
\* extractConversation returns the soft failure for a missing scroll region.
C37_ValidHasRegion ==
  /\ validateSelectors(page).valid => findScrollContainer(page) # "null"
  /\ \A c \in Calls :
       FromConversation(c) =>
         /\ call[c].scrollResult # ScrollSoftFailure
         /\ call[c].scrollResult # NoScrollResult => call[c].scrollResult.success

\* an extraction whose loader returned on a page without a match of the
\* scroll container pattern: the region is the fallback below the
\* conversation container
C37_Witness ==
  \E c \in Calls :
    /\ FromConversation(c)
    /\ call[c].scrollResult # NoScrollResult
    /\ call[c].scrollResult.success
    /\ page.layout.scrollMatch # "scrollable"
    /\ validateSelectors(page).valid
    /\ findScrollContainer(page) = "body"


(***************************************************************************)
(* C38.  The clicks of one expandAllContent call.  obsClicks lists the     *)
(* controls the call has clicked, in order.                                *)
(***************************************************************************)
Expanded(c) ==
  /\ FromConversation(c)
  /\ call[c].pc \in {"settleSleep", "turnsYield", "imagesAwait", "readersAwait", "done"}
  /\ call[c].obsExit # "threw"

\* the controls call c has clicked
Clicked(c) == {call[c].obsClicks[k] : k \in 1..Len(call[c].obsClicks)}

\* C38: every control an expandAllContent call clicks lies inside the
\* conversation container and is clicked once at most, also when it matches
\* both the expand button pattern and the thinking toggle pattern, and the
\* count returned is the number of controls clicked.
C38_ClickedOnceInside ==
  \A c \in Calls :
    /\ \A k \in 1..Len(call[c].obsClicks) :
         /\ page.layout.controls[call[c].obsClicks[k]].inside
         /\ \A l \in 1..Len(call[c].obsClicks) :
              call[c].obsClicks[l] = call[c].obsClicks[k] => l = k
    /\ Expanded(c) => call[c].expandedCount = Cardinality(Clicked(c))


(***************************************************************************)
(* C39.  When the counting loader reports completion.  stableCount is the  *)
(* number of iterations in a row, up to the last one, in which the count   *)
(* was not above the recorded count and the region was at offset 0 or had  *)
(* not moved: the steps below keep it so.                                  *)
(***************************************************************************)
\* a step of the loader of call c (a step of the host leaves both unchanged)
LoaderActs(c) ==
  call'[c].pc # call[c].pc \/ call'[c].scrollAttempts # call[c].scrollAttempts

StillLooping(c) == call'[c].pc \in {"scrollSleep", "scrollStability"}

=============================================================================
